---- MODULE Spec2Model ----
(***************************************************************************)
(* A model of pynintendoparental's device synchronisation engine:          *)
(* Device (device.py), its Application objects (application.py), its       *)
(* Player objects (player.py) and the observer callbacks.                  *)
(*                                                                         *)
(* One caller drives one Device.  Every await on the network is a step of  *)
(* its own, so the four fetch groups of Device.update() interleave, and a  *)
(* response is either a body or an HttpException.                          *)
(***************************************************************************)
EXTENDS Integers, Sequences, FiniteSets, TLC

VARIABLES
    dev,      \* the Device object: its fields, named as in device.py
    clock,    \* index into Instants: what datetime.now() returns
    pc,       \* where the caller's coroutine is suspended
    op,       \* the operation in progress: its name, its `now`, its request
    tasks,    \* the four coroutines of update()'s asyncio.gather
    cb,       \* _execute_callbacks: the next callback and those in flight
    hist,     \* what the caller observed of the last operation
    ops,      \* number of network operations the caller has started
    faults,   \* number of requests that failed and callbacks that raised
    scenario, \* what the service and the caller vary in this run
    client,   \* the NintendoParental object and the call of it in progress
    dispatcher \* the Api object: its Authenticator's token and its calls in flight

vars == <<dev, clock, pc, op, tasks, cb, hist, ops, faults, scenario, client, dispatcher>>

----------------------------------------------------------------------------
(* Bounds of the model *)

\* network operations (update() and mutation calls) started in one run
MaxOps == 2

\* requests that fail and callbacks that raise in one run
MaxFaults == 1

\* A run varies the inputs of one scenario and keeps the others to one value
\* each; every operation is there in every scenario.
Scenarios ==
    {"settings", "times", "observers", "monthly", "queries", "validation",
     "applications", "discovery", "dispatcher", "responses",
     "remaining"}

Focus ==
    [ settings  |-> {"settings", "arguments"},
      times     |-> {"daily", "clock", "limits"},
      observers |-> {"callables", "settings"},
      monthly   |-> {"monthly", "errors", "extras"},
      queries   |-> {"daily", "dates"},
      validation |-> {"settings", "edges"},
      applications |-> {"settings", "launch"},
      discovery |-> {},
      dispatcher |-> {"tokens"},
      responses |-> {"responses"},
      remaining |-> {"limits", "late", "extras"} ]

Varies(what) == what \in Focus[scenario]

----------------------------------------------------------------------------
(* Python values *)

\* None / JSON null, and Optional values: <<>> is None, <<v>> is v
None == <<>>
Some(v) == <<v>>
IsNone(o) == Len(o) = 0
Val(o) == o[1]

\* a Python number: an int, or a float given by its tenths
PyInt(n) == [float |-> FALSE, tenths |-> 10 * n]
PyFloat(t) == [float |-> TRUE, tenths |-> t]

\* int(x): what is after the point is dropped
IntOf(x) ==
    IF x.tenths >= 0 THEN x.tenths \div 10 ELSE -((-x.tenths) \div 10)

\* datetime.time(hour, minute)
Time(h, m) == [hour |-> h, minute |-> m]

\* {"hour": h, "minute": m} of the wire format
WireTime(t) == [hour |-> t.hour, minute |-> t.minute]

Max(a, b) == IF a >= b THEN a ELSE b
Min(a, b) == IF a <= b THEN a ELSE b

----------------------------------------------------------------------------
(* datetime *)

IsLeap(y) == (y % 4 = 0) /\ ((y % 100 # 0) \/ (y % 400 = 0))

DaysInMonth(y, m) ==
    IF m = 2 THEN (IF IsLeap(y) THEN 29 ELSE 28)
    ELSE IF m \in {4, 6, 9, 11} THEN 30 ELSE 31

RECURSIVE DaysBeforeMonth(_, _)
DaysBeforeMonth(y, m) ==
    IF m = 1 THEN 0 ELSE DaysBeforeMonth(y, m - 1) + DaysInMonth(y, m - 1)

\* date.toordinal()
ToOrdinal(dt) ==
    LET y1 == dt.year - 1
    IN  y1 * 365 + (y1 \div 4) - (y1 \div 100) + (y1 \div 400)
        + DaysBeforeMonth(dt.year, dt.month) + dt.day

\* datetime.weekday(): Monday is 0
Weekday(dt) == (ToOrdinal(dt) + 6) % 7

\* dt - timedelta(days=1)
MinusOneDay(dt) ==
    IF dt.day > 1 THEN [dt EXCEPT !.day = dt.day - 1]
    ELSE IF dt.month > 1
         THEN [dt EXCEPT !.month = dt.month - 1,
                         !.day = DaysInMonth(dt.year, dt.month - 1)]
         ELSE [dt EXCEPT !.year = dt.year - 1, !.month = 12, !.day = 31]

\* dt.strftime("%Y-%m-%d"): the date string, as its three numbers
StrfDate(dt) == <<dt.year, dt.month, dt.day>>

\* datetime.strptime(s, "%Y-%m-%d")
StrpDate(s) ==
    [year |-> s[1], month |-> s[2], day |-> s[3], hour |-> 0, minute |-> 0, second |-> 0]

DateTime(y, mo, d, h, mi, s) ==
    [year |-> y, month |-> mo, day |-> d, hour |-> h, minute |-> mi, second |-> s]

\* the seven canonical lowercase day names, Monday first (const.DAYS_OF_WEEK)
DAYS_OF_WEEK ==
    <<"monday", "tuesday", "wednesday", "thursday", "friday", "saturday", "sunday">>

DayNames == {DAYS_OF_WEEK[i] : i \in 1..7}

\* DAYS_OF_WEEK[now.weekday()]
CurrentDay(now) == DAYS_OF_WEEK[Weekday(now) + 1]

----------------------------------------------------------------------------
(* The settings document (parentalControlSetting) and the other payloads *)

\* a null startingTime / endingTime, and a time attribute that is None
NoTime == [hour |-> -1, minute |-> -1]

\* the empty dict a Device starts with
NoDoc == [empty |-> TRUE]

\* "timeToPlayInOneDay": hasLimitTime says whether the key "limitTime" is there
TimeToPlay(en, has, lim) == [enabled |-> en, hasLimitTime |-> has, limitTime |-> lim]

Bedtime(en, st, et) == [enabled |-> en, startingTime |-> st, endingTime |-> et]

Regulation(ttp, bed) == [timeToPlayInOneDay |-> ttp, bedtime |-> bed]

NoRegulation == Regulation(TimeToPlay(FALSE, TRUE, None), Bedtime(FALSE, NoTime, NoTime))

WhitelistEntry(id, sl) == [applicationId |-> id, safeLaunch |-> sl]

\* "playTimerRegulations"; legacyBedtime: the keys bedtimeStartingTime and
\* bedtimeEndingTime are there; other: a field the library does not know
PlayTimerRegulations(tm, rm, daily, each, legacy, other) ==
    [timerMode |-> tm, restrictionMode |-> rm, dailyRegulations |-> daily,
     eachDayOfTheWeekRegulations |-> each, legacyBedtime |-> legacy, other |-> other]

SettingsDoc(ptr, frl, wl, etag) ==
    [playTimerRegulations |-> ptr, functionalRestrictionLevel |-> frl,
     whitelistedApplicationList |-> wl, etag |-> etag]

\* the body of a settings response: the document and
\* ownedDevice.device.extraPlayingTime.inOneDay.duration
SettingsJson(doc, extra) == [parentalControlSetting |-> doc, extraPlayingTime |-> extra]

AppIds == {"A", "B"}
PlayerIds == {"p1", "p2"}

AllDays(reg) == [d \in DayNames |-> reg]

DocDailyLimit ==
    SettingsDoc(
        PlayTimerRegulations("DAILY", "FORCED_TERMINATION",
            Regulation(TimeToPlay(TRUE, TRUE, Some(300)), Bedtime(FALSE, NoTime, NoTime)),
            AllDays(NoRegulation), FALSE, "u1"),
        "NONE", <<WhitelistEntry("A", "NONE")>>, "e1")

DocDailyBedtime ==
    SettingsDoc(
        PlayTimerRegulations("DAILY", "ALARM",
            Regulation(TimeToPlay(FALSE, TRUE, None),
                       Bedtime(TRUE, Time(7, 0), Time(21, 0))),
            AllDays(NoRegulation), TRUE, "u2"),
        "CHILDREN", <<WhitelistEntry("A", "ALLOW"), WhitelistEntry("B", "NONE")>>, "e2")

DocEachDay ==
    SettingsDoc(
        PlayTimerRegulations("EACH_DAY_OF_THE_WEEK", "ALARM",
            Regulation(TimeToPlay(TRUE, TRUE, Some(300)), Bedtime(FALSE, NoTime, NoTime)),
            [AllDays(NoRegulation) EXCEPT
                !["monday"] = Regulation(TimeToPlay(TRUE, TRUE, Some(60)),
                                         Bedtime(TRUE, Time(7, 0), Time(20, 0))),
                !["wednesday"] = Regulation(TimeToPlay(TRUE, TRUE, Some(120)),
                                            Bedtime(FALSE, NoTime, NoTime))],
            FALSE, "u3"),
        "NONE", <<WhitelistEntry("B", "NONE")>>, "e3")

\* what the service may answer to a settings read or to a write
SettingsResponses ==
    IF Varies("settings")
    THEN { SettingsJson(DocDailyLimit, None),
           SettingsJson(DocDailyBedtime, Some(50)),
           SettingsJson(DocEachDay, None) }
    ELSE IF Varies("limits")
    THEN { SettingsJson(DocDailyLimit, None), SettingsJson(DocDailyBedtime, Some(50)) }
    ELSE { SettingsJson(DocDailyBedtime, Some(50)) }

\* one record of "dailySummaries"
DailySummary(date, playing, players) ==
    [date |-> date, playingTime |-> playing, players |-> players]

PlayerSummary(pid, playing) == [playerId |-> pid, playingTime |-> playing]

Oct30 == <<2023, 10, 30>>
Oct31 == <<2023, 10, 31>>
Nov01 == <<2023, 11, 1>>
Nov02 == <<2023, 11, 2>>

\* what the service may answer to the daily-summaries read (most recent first)
DailyResponses ==
    IF Varies("daily")
    THEN { <<>>,
           <<DailySummary(Oct30, 100, <<PlayerSummary("p1", 100)>>)>>,
           <<DailySummary(Oct31, 400, <<>>)>>,
           <<DailySummary(Nov01, 30, <<PlayerSummary("p1", 30)>>),
             DailySummary(Oct31, 50, <<PlayerSummary("p2", 50)>>),
             DailySummary(Oct30, 100, <<PlayerSummary("p1", 100)>>)>> }
    ELSE { <<DailySummary(Oct30, 100, <<PlayerSummary("p1", 100)>>)>> }

\* "available" of the monthly-summaries list
AvailableResponses ==
    IF Varies("monthly") THEN { <<>>, <<[year |-> 2023, month |-> 10]>> }
    ELSE { <<[year |-> 2023, month |-> 10]>> }

NoSummary == [empty |-> TRUE]

\* "summary" of a monthly summary: its players' profile ids
MonthlySummary(id, players) == [id |-> id, players |-> players]

MonthlyResponses ==
    IF Varies("monthly")
    THEN { MonthlySummary("m1", <<"p1">>), MonthlySummary("m2", <<"p1", "p2">>) }
    ELSE { MonthlySummary("m1", <<"p1">>) }

\* alarmSetting.visibility of the account-device read
ExtrasResponses == IF Varies("extras") THEN { "VISIBLE", "INVISIBLE" } ELSE { "VISIBLE" }

\* the values datetime.now() takes during a run, in order
Instants ==
    << DateTime(2023, 10, 30, 10, 0, 0),
       DateTime(2023, 10, 30, 20, 30, 30),
       DateTime(2023, 10, 30, 22, 0, 0),
       DateTime(2023, 11, 1, 9, 0, 0) >>

\* the instants a run goes through
Timeline ==
    IF Varies("clock") THEN <<1, 2, 4>>
    ELSE IF Varies("arguments") THEN <<1, 4>>
    ELSE IF Varies("late") THEN <<1, 2, 3>>
    ELSE <<1, 2>>

Now == Instants[Timeline[clock]]

----------------------------------------------------------------------------
(* Device: construction and the synchronous helpers *)

\* Device.__init__; objects counts the Application objects constructed so far
NewDevice ==
    [ parental_control_settings |-> NoDoc,
      daily_summaries |-> <<>>,
      players |-> <<>>,
      limit_time |-> 0,
      extra_playing_time |-> None,
      timer_mode |-> "None",
      today_playing_time |-> 0,
      today_time_remaining |-> 0,
      bedtime_alarm |-> NoTime,
      bedtime_end |-> NoTime,
      month_playing_time |-> 0,
      last_month_summary |-> NoSummary,
      applications |-> <<>>,
      forced_termination_mode |-> FALSE,
      alarms_enabled |-> FALSE,
      stats_update_failed |-> FALSE,
      callbacks |-> <<>>,
      internal_callbacks |-> <<>>,
      objects |-> 0 ]

\* Application.__init__: _device is None (synced = FALSE) and
\* _parental_control_settings is {} (its own dict, not the device's)
NewApplication(oid) ==
    [oid |-> oid, synced |-> FALSE, alias |-> FALSE, doc |-> NoDoc,
     safe_launch_setting |-> "NONE"]

\* Device._get_today_regulation
GetTodayRegulation(d, now) ==
    IF d.timer_mode = "EACH_DAY_OF_THE_WEEK"
    THEN d.parental_control_settings.playTimerRegulations
            .eachDayOfTheWeekRegulations[CurrentDay(now)]
    ELSE d.parental_control_settings.playTimerRegulations.dailyRegulations

\* the attribute, once bound, keeps the dict the method edited and sent
RebindKeepsLocal(d, doc) ==
    IF d.parental_control_settings = NoDoc
    THEN [d EXCEPT !.parental_control_settings = doc]
    ELSE d

\* self.parental_control_settings = ...: the attribute is bound to another dict;
\* an Application that held the previous dict keeps holding that one
Rebind(d, doc) ==
    [d EXCEPT
        !.parental_control_settings = doc,
        !.applications =
            [a \in DOMAIN d.applications |->
                IF d.applications[a].alias
                THEN [d.applications[a] EXCEPT
                        !.alias = FALSE, !.doc = d.parental_control_settings]
                ELSE d.applications[a]]]

\* the two pops of _parse_parental_control_setting
PopLegacyBedtime(doc) == [doc EXCEPT !.playTimerRegulations.legacyBedtime = FALSE]

\* Device._parse_parental_control_setting
ParseParentalControlSetting(d, json, now) ==
    LET doc == PopLegacyBedtime(json.parentalControlSetting)
        d1  == [Rebind(d, doc) EXCEPT
                  !.forced_termination_mode =
                      (doc.playTimerRegulations.restrictionMode = "FORCED_TERMINATION"),
                  !.timer_mode = doc.playTimerRegulations.timerMode]
        today_reg == GetTodayRegulation(d1, now)
        ttp == today_reg.timeToPlayInOneDay
        limit_time == IF ttp.hasLimitTime THEN ttp.limitTime ELSE None
        bedtime_setting == today_reg.bedtime
    IN  [d1 EXCEPT
            !.limit_time = IF IsNone(limit_time) THEN -1 ELSE Val(limit_time),
            !.extra_playing_time = json.extraPlayingTime,
            !.bedtime_alarm =
                IF bedtime_setting.enabled /\ bedtime_setting.endingTime # NoTime
                THEN Time(bedtime_setting.endingTime.hour, bedtime_setting.endingTime.minute)
                ELSE Time(0, 0),
            !.bedtime_end =
                IF bedtime_setting.enabled /\ bedtime_setting.startingTime # NoTime
                THEN Time(bedtime_setting.startingTime.hour,
                          bedtime_setting.startingTime.minute)
                ELSE Time(0, 0)]

MinutesInDay == 1440

\* now.hour * 60 + now.minute
MinutesPastMidnight(now) == now.hour * 60 + now.minute

\* _calculate_today_remaining_time with the limit alone
RemainingByLimitOnly(d, now) ==
    [d EXCEPT
        !.today_time_remaining =
            IF d.limit_time = -1 THEN MinutesInDay - MinutesPastMidnight(now)
            ELSE Max(0, d.limit_time - d.today_playing_time),
        !.stats_update_failed = FALSE]

\* Device._calculate_today_remaining_time; the two remainders are kept in seconds
\* so that (bedtime_dt - now).total_seconds() / 60 and int() stay whole numbers
CalculateTodayRemainingTime(d, now) ==
    LET current == MinutesPastMidnight(now)
        by_play_limit ==
            IF d.limit_time = -1
            THEN (MinutesInDay - current) * 60
            ELSE (d.limit_time - d.today_playing_time) * 60
        bedtime == d.bedtime_alarm.hour * 60 + d.bedtime_alarm.minute
        by_bedtime ==
            IF d.bedtime_alarm # NoTime /\ d.bedtime_alarm # Time(0, 0) /\ d.alarms_enabled
            THEN IF bedtime * 60 > current * 60 + now.second
                 THEN bedtime * 60 - (current * 60 + now.second)
                 ELSE 0
            ELSE (MinutesInDay - current) * 60
    IN  [d EXCEPT
            !.today_time_remaining = Max(0, Min(by_play_limit, by_bedtime)) \div 60,
            !.stats_update_failed = FALSE]

\* the playing time of the latest record alone
MonthPlayingTimeOfLatest(summaries, now) ==
    IF Len(summaries) = 0 THEN 0 ELSE Head(summaries).playingTime

\* the loop of _calculate_times over the daily summaries
RECURSIVE MonthPlayingTime(_, _)
MonthPlayingTime(summaries, now) ==
    IF Len(summaries) = 0 THEN 0
    ELSE LET date_parsed == StrpDate(Head(summaries).date)
         IN  (IF date_parsed.year = now.year /\ date_parsed.month = now.month
              THEN Head(summaries).playingTime ELSE 0)
             + MonthPlayingTime(Tail(summaries), now)

\* Device._calculate_times
CalculateTimes(d, now) ==
    IF Len(d.daily_summaries) = 0 THEN d
    ELSE LET first == d.daily_summaries[1]
             d1 == [d EXCEPT !.today_playing_time =
                        IF first.date # StrfDate(now) THEN 0 ELSE first.playingTime]
         IN  [CalculateTodayRemainingTime(d1, now) EXCEPT
                 !.month_playing_time = MonthPlayingTime(d.daily_summaries, now)]

\* an Application for the first entry of the whitelist that registers no
\* callback with the device
UpdateApplicationsUnobserved(d, whitelist) ==
    IF Len(whitelist) = 0 \/ Head(whitelist).applicationId \in DOMAIN d.applications
    THEN d
    ELSE [d EXCEPT
            !.applications = d.applications
                                @@ (Head(whitelist).applicationId :> NewApplication(d.objects + 1)),
            !.objects = d.objects + 1]

\* Device._update_applications: one step of its loop over the whitelist
RECURSIVE UpdateApplicationsFrom(_, _)
UpdateApplicationsFrom(d, whitelist) ==
    IF Len(whitelist) = 0 THEN d
    ELSE LET id == Head(whitelist).applicationId
         IN  IF id \in DOMAIN d.applications
             THEN UpdateApplicationsFrom(d, Tail(whitelist))
             ELSE UpdateApplicationsFrom(
                    [d EXCEPT
                        !.applications = d.applications @@ (id :> NewApplication(d.objects + 1)),
                        !.internal_callbacks = Append(d.internal_callbacks, id),
                        !.objects = d.objects + 1],
                    Tail(whitelist))

\* the map is built afresh from the whitelist
UpdateApplicationsAfresh(d) ==
    IF d.parental_control_settings = NoDoc THEN d
    ELSE UpdateApplicationsFrom(
            [d EXCEPT !.applications = <<>>, !.internal_callbacks = <<>>],
            d.parental_control_settings.whitelistedApplicationList)

\* Device._update_applications
UpdateApplications(d) ==
    IF d.parental_control_settings = NoDoc THEN d
    ELSE UpdateApplicationsFrom(d, d.parental_control_settings.whitelistedApplicationList)

\* Player.update_from_daily_summary, for the player with id pid
RECURSIVE PlayingTimeIn(_, _, _)
PlayingTimeIn(players_list, pid, old) ==
    IF Len(players_list) = 0 THEN old
    ELSE IF Head(players_list).playerId = pid
         THEN Some(Head(players_list).playingTime)
         ELSE PlayingTimeIn(Tail(players_list), pid, old)

\* the loop of update() over self.players
UpdatePlayers(d) ==
    IF Len(d.daily_summaries) = 0 THEN d
    ELSE [d EXCEPT !.players =
            [p \in DOMAIN d.players |->
                [d.players[p] EXCEPT !.playing_time =
                    PlayingTimeIn(d.daily_summaries[1].players, p, @)]]]

\* Device.get_monthly_summary, lines 619-630: the latest summary is stored and
\* its players are created (Player.from_profile) or updated
RECURSIVE StoreMonthlyPlayers(_, _, _)
StoreMonthlyPlayers(players, ids, summary) ==
    IF Len(ids) = 0 THEN players
    ELSE LET pid == Head(ids)
             known == IF pid \in DOMAIN players THEN players
                      ELSE players @@ (pid :> [playing_time |-> None,
                                               month_summary |-> "none"])
         IN  StoreMonthlyPlayers(
                [known EXCEPT ![pid].month_summary = summary.id], Tail(ids), summary)

StoreMonthlySummary(d, summary) ==
    [d EXCEPT !.last_month_summary = summary,
              !.players = StoreMonthlyPlayers(d.players, summary.players, summary)]

\* Device.get_date_summary: the list it returns, or the error it raises
SummariesDated(summaries, date) ==
    SelectSeq(summaries, LAMBDA x : x.date = StrfDate(date))

\* the search goes back a second day when the day before has no record either
GetDateSummaryTwoBack(d, input_date) ==
    IF Len(d.daily_summaries) = 0
    THEN [raised |-> "ValueError", value |-> <<>>]
    ELSE LET summary == SummariesDated(d.daily_summaries, input_date)
             fallback == IF Len(summary) = 0
                         THEN SummariesDated(d.daily_summaries, MinusOneDay(input_date))
                         ELSE summary
             further == IF Len(fallback) = 0
                        THEN SummariesDated(d.daily_summaries,
                                            MinusOneDay(MinusOneDay(input_date)))
                        ELSE fallback
         IN  IF Len(further) = 0
             THEN [raised |-> "ValueError", value |-> <<>>]
             ELSE [raised |-> "no", value |-> further]

GetDateSummary(d, input_date) ==
    IF Len(d.daily_summaries) = 0
    THEN [raised |-> "ValueError", value |-> <<>>]
    ELSE LET summary == SummariesDated(d.daily_summaries, input_date)
             fallback == IF Len(summary) = 0
                         THEN SummariesDated(d.daily_summaries, MinusOneDay(input_date))
                         ELSE summary
         IN  IF Len(fallback) = 0
             THEN [raised |-> "ValueError", value |-> <<>>]
             ELSE [raised |-> "no", value |-> fallback]

----------------------------------------------------------------------------
(* The mutation methods, up to their request: the validation and the edit of  *)
(* the settings document, which is made in place.  Each gives the exception   *)
(* raised ("no" when none) and the Device as the method leaves it.            *)

Outcome(raised, d) == [raised |-> raised, dev |-> d]

\* the document's playTimerRegulations with the regulation of today replaced
WithTodayRegulation(d, now, reg) ==
    IF d.timer_mode = "EACH_DAY_OF_THE_WEEK"
    THEN [d EXCEPT !.parental_control_settings.playTimerRegulations
                        .eachDayOfTheWeekRegulations[CurrentDay(now)] = reg]
    ELSE [d EXCEPT !.parental_control_settings.playTimerRegulations
                        .dailyRegulations = reg]

\* the regulation the setters write to: dailyRegulations when the timer mode is
\* DAILY, the current weekday's otherwise
TargetRegulation(d, now) ==
    IF d.timer_mode = "DAILY"
    THEN d.parental_control_settings.playTimerRegulations.dailyRegulations
    ELSE d.parental_control_settings.playTimerRegulations
            .eachDayOfTheWeekRegulations[CurrentDay(now)]

\* the regulation is written to dailyRegulations and to every weekday
WithEveryRegulation(d, now, reg) ==
    [d EXCEPT !.parental_control_settings.playTimerRegulations.dailyRegulations = reg,
              !.parental_control_settings.playTimerRegulations
                    .eachDayOfTheWeekRegulations = [dn \in DayNames |-> reg]]

WithTargetRegulation(d, now, reg) ==
    IF d.timer_mode = "DAILY"
    THEN [d EXCEPT !.parental_control_settings.playTimerRegulations
                        .dailyRegulations = reg]
    ELSE [d EXCEPT !.parental_control_settings.playTimerRegulations
                        .eachDayOfTheWeekRegulations[CurrentDay(now)] = reg]

\* Device.set_restriction_mode, lines 152-154
SetRestrictionModeEdit(d, mode) ==
    Outcome("no",
        [d EXCEPT !.parental_control_settings.playTimerRegulations.restrictionMode = mode])

\* Device.set_timer_mode, lines 236-237
SetTimerModeEdit(d, mode) ==
    Outcome("no",
        [d EXCEPT !.timer_mode = mode,
                  !.parental_control_settings.playTimerRegulations.timerMode = mode])

\* Device.set_functional_restriction_level, line 319
SetFunctionalRestrictionLevelEdit(d, level) ==
    Outcome("no", [d EXCEPT !.parental_control_settings.functionalRestrictionLevel = level])

\* Device.set_bedtime_alarm, lines 168-195
SetBedtimeAlarmEdit(d, value, now) ==
    IF ~((16 <= value.hour /\ value.hour <= 23) \/ (value.hour = 0 /\ value.minute = 0))
    THEN Outcome("BedtimeOutOfRangeError", d)
    ELSE LET enabled == 16 <= value.hour /\ value.hour <= 23
             today == GetTodayRegulation(d, now)
             \* regulation["enabled"] = ... writes into today's bedtime itself
             d1 == WithTodayRegulation(d, now, [today EXCEPT !.bedtime.enabled = enabled])
             regulation == [GetTodayRegulation(d1, now).bedtime EXCEPT
                               !.endingTime = IF enabled THEN WireTime(value) ELSE NoTime]
         IN  Outcome("no",
                WithTargetRegulation(d1, now,
                    [TargetRegulation(d1, now) EXCEPT !.bedtime = regulation]))

\* Device.set_bedtime_end_time, lines 211-225
SetBedtimeEndTimeEdit(d, value, now) ==
    LET minutes == value.hour * 60 + value.minute
    IN  IF ~(5 * 60 <= minutes /\ minutes <= 9 * 60)
        THEN Outcome("BedtimeOutOfRangeError", d)
        ELSE Outcome("no",
                WithTargetRegulation(d, now,
                    [TargetRegulation(d, now) EXCEPT
                        !.bedtime.startingTime = WireTime(value)]))

\* Device.update_max_daily_playtime, lines 329-380
UpdateMaxDailyPlaytimeEdit(d, number, now) ==
    \* a float is made an int before the range is looked at
    LET minutes == IntOf(number) IN
    IF minutes > 360 \/ minutes < -1
    THEN Outcome("DailyPlaytimeOutOfRangeError", d)
    ELSE LET ttpiod == minutes # -1
             limit == IF minutes = -1 THEN None ELSE Some(minutes)
             old == TargetRegulation(d, now).timeToPlayInOneDay
             new == IF old.hasLimitTime /\ IsNone(limit)
                    THEN TimeToPlay(ttpiod, FALSE, None)
                    ELSE TimeToPlay(ttpiod, TRUE, limit)
         IN  Outcome("no",
                WithTargetRegulation(d, now,
                    [TargetRegulation(d, now) EXCEPT !.timeToPlayInOneDay = new]))

BedtimeStartInRange(t) ==
    LET minutes == t.hour * 60 + t.minute
    IN  5 * 60 <= minutes /\ minutes <= 9 * 60

BedtimeEndInRange(t) ==
    \/ (16 <= t.hour /\ t.hour <= 22)
    \/ (t.hour = 23 /\ t.minute = 0)
    \/ (t.hour = 0 /\ t.minute = 0)

\* the timer mode is not looked at
SetDailyRestrictionsInAnyMode(d, a) ==
    IF a.day_of_week \notin DayNames THEN Outcome("ValueError", d)
    ELSE Outcome("no",
            [d EXCEPT !.parental_control_settings.playTimerRegulations
                          .eachDayOfTheWeekRegulations[a.day_of_week].bedtime =
                              Bedtime(FALSE, NoTime, NoTime)])

\* Device.set_daily_restrictions, lines 263-308; a is the record of its arguments
SetDailyRestrictionsEdit(d, a) ==
    IF d.timer_mode # "EACH_DAY_OF_THE_WEEK" THEN Outcome("InvalidDeviceStateError", d)
    ELSE IF a.day_of_week \notin DayNames THEN Outcome("ValueError", d)
    ELSE
      LET each == d.parental_control_settings.playTimerRegulations
                     .eachDayOfTheWeekRegulations
          regulation == each[a.day_of_week]
          put(reg) == [d EXCEPT !.parental_control_settings.playTimerRegulations
                                    .eachDayOfTheWeekRegulations[a.day_of_week] = reg]
          withTimes == a.bedtime_enabled /\ a.bedtime_start # NoTime /\ a.bedtime_end # NoTime
          bedtime ==
              IF withTimes
              THEN Bedtime(TRUE, WireTime(a.bedtime_start), WireTime(a.bedtime_end))
              ELSE Bedtime(FALSE, NoTime, NoTime)
          afterBedtime == [regulation EXCEPT !.bedtime = bedtime]
          limited == a.enabled /\ ~IsNone(a.max_daily_playtime)
      IN  IF withTimes /\ ~BedtimeStartInRange(a.bedtime_start)
          THEN Outcome("BedtimeOutOfRangeError", d)
          ELSE IF withTimes /\ ~BedtimeEndInRange(a.bedtime_end)
          THEN Outcome("BedtimeOutOfRangeError", d)
          ELSE IF a.bedtime_enabled /\ ~withTimes
          THEN Outcome("BedtimeOutOfRangeError", d)
          ELSE IF limited /\ ~(0 <= Val(a.max_daily_playtime)
                               /\ Val(a.max_daily_playtime) <= 360)
          \* raised after regulation["bedtime"] and regulation["timeToPlayInOneDay"]
          \* were assigned
          THEN Outcome("DailyPlaytimeOutOfRangeError",
                  put([afterBedtime EXCEPT
                        !.timeToPlayInOneDay = TimeToPlay(a.enabled, FALSE, None)]))
          ELSE Outcome("no",
                  put([afterBedtime EXCEPT
                        !.timeToPlayInOneDay =
                            TimeToPlay(a.enabled, TRUE,
                                IF limited THEN a.max_daily_playtime ELSE None)]))

\* the arguments of set_daily_restrictions
DailyRestrictions(en, bed, day, st, et, max) ==
    [enabled |-> en, bedtime_enabled |-> bed, day_of_week |-> day,
     bedtime_start |-> st, bedtime_end |-> et, max_daily_playtime |-> max]

(* The values the caller passes *)
RestrictionModes ==
    IF Varies("arguments") THEN {"FORCED_TERMINATION", "ALARM"} ELSE {"FORCED_TERMINATION"}
TimerModes ==
    IF Varies("arguments") THEN {"DAILY", "EACH_DAY_OF_THE_WEEK"}
    ELSE {"EACH_DAY_OF_THE_WEEK"}
RestrictionLevels == {"OLDER_TEENS"}
BedtimeAlarmValues ==
    IF Varies("edges")
    THEN {Time(0, 0), Time(0, 1), Time(14, 30), Time(16, 0), Time(23, 0), Time(23, 30)}
    ELSE IF Varies("arguments") THEN {Time(0, 0), Time(20, 0), Time(14, 30)}
    ELSE {Time(20, 0)}
BedtimeEndValues ==
    IF Varies("edges")
    THEN {Time(0, 0), Time(0, 1), Time(4, 0), Time(5, 0), Time(9, 0), Time(9, 1)}
    ELSE IF Varies("arguments") THEN {Time(7, 0), Time(4, 0)}
    ELSE {Time(7, 0)}
PlaytimeValues ==
    IF Varies("edges")
    THEN {PyInt(-2), PyInt(-1), PyInt(0), PyInt(360), PyInt(361),
          PyFloat(15), PyFloat(3605), PyFloat(-15)}
    ELSE IF Varies("arguments") THEN {PyInt(-1), PyInt(120), PyInt(361)}
    ELSE {PyInt(120)}
DailyRestrictionValues ==
    IF Varies("edges")
    THEN { DailyRestrictions(TRUE, FALSE, "monday", NoTime, NoTime, Some(260)),
           DailyRestrictions(TRUE, TRUE, "monday", Time(7, 0), Time(20, 0), Some(380)),
           DailyRestrictions(FALSE, TRUE, "wednesday", Time(7, 0), Time(21, 0), None),
           DailyRestrictions(TRUE, TRUE, "monday", NoTime, NoTime, Some(260)),
           DailyRestrictions(TRUE, FALSE, "invalid_day", NoTime, NoTime, Some(260)),
           DailyRestrictions(TRUE, FALSE, "Monday", NoTime, NoTime, Some(260)) }
    ELSE IF Varies("arguments")
    THEN { DailyRestrictions(TRUE, FALSE, "monday", NoTime, NoTime, Some(260)),
           DailyRestrictions(TRUE, TRUE, "monday", Time(7, 0), Time(20, 0), Some(380)),
           DailyRestrictions(FALSE, TRUE, "wednesday", Time(7, 0), Time(21, 0), None),
           DailyRestrictions(TRUE, TRUE, "monday", NoTime, NoTime, Some(260)),
           DailyRestrictions(TRUE, FALSE, "invalid_day", NoTime, NoTime, Some(260)) }
    ELSE { DailyRestrictions(TRUE, FALSE, "monday", NoTime, NoTime, Some(260)) }

----------------------------------------------------------------------------
(* Observer callbacks *)

\* what the caller registers: two functions, f synchronous and g a coroutine
\* function, and an object that is not callable
Callables == IF Varies("callables") THEN {"f", "g"} ELSE {"g"}
NotCallable == "not a function"

\* what add_device_callback and remove_device_callback are given
CallbackArguments == IF Varies("callables") THEN Callables \cup {NotCallable} ELSE Callables

\* the callback is appended whether or not the list has it
AddDeviceCallbackAgain(callbacks, c) == Append(callbacks, c)

\* Device.add_device_callback, lines 103-104
AddDeviceCallbackList(callbacks, c) ==
    IF \E i \in 1..Len(callbacks) : callbacks[i] = c THEN callbacks
    ELSE Append(callbacks, c)

\* list.remove: the first occurrence goes
RECURSIVE ListRemove(_, _)
ListRemove(list, c) ==
    IF Len(list) = 0 THEN list
    ELSE IF Head(list) = c THEN Tail(list)
    ELSE <<Head(list)>> \o ListRemove(Tail(list), c)

\* Device.remove_device_callback, lines 110-111
RemoveDeviceCallbackList(callbacks, c) ==
    IF \E i \in 1..Len(callbacks) : callbacks[i] = c THEN ListRemove(callbacks, c)
    ELSE callbacks

InternalCallback(id) == [kind |-> "internal", id |-> id]
ExternalCallback(c) == [kind |-> "external", id |-> c]

\* the loop over the callbacks of the caller comes first
ExternalCallbacksFirst(d) ==
    [i \in 1..Len(d.callbacks) |-> ExternalCallback(d.callbacks[i])]
    \o [i \in 1..Len(d.internal_callbacks) |-> InternalCallback(d.internal_callbacks[i])]

\* Device._execute_callbacks: the callbacks in the order of its two loops
ExecutionOrder(d) ==
    [i \in 1..Len(d.internal_callbacks) |-> InternalCallback(d.internal_callbacks[i])]
    \o [i \in 1..Len(d.callbacks) |-> ExternalCallback(d.callbacks[i])]

\* _execute_callbacks awaits a callback before it goes on to the next one
CanInvoke(c) == c.running = {}

\* the safeLaunch of the whitelist entry of application id, if there is one
RECURSIVE SafeLaunchIn(_, _, _)
SafeLaunchIn(whitelist, id, old) ==
    IF Len(whitelist) = 0 THEN old
    ELSE IF Head(whitelist).applicationId = id THEN Head(whitelist).safeLaunch
    ELSE SafeLaunchIn(Tail(whitelist), id, old)

\* Application._internal_update_callback(device), lines 84-103
InternalUpdateCallback(d, id) ==
    [d EXCEPT !.applications[id] =
        [@ EXCEPT !.synced = TRUE, !.alias = TRUE, !.doc = NoDoc,
                  !.safe_launch_setting =
                      IF d.parental_control_settings = NoDoc THEN @
                      ELSE SafeLaunchIn(
                              d.parental_control_settings.whitelistedApplicationList,
                              id, @)]]

NoCallbacks == [next |-> 1, running |-> {}]

----------------------------------------------------------------------------
(* The caller *)

TaskNames == {"daily", "settings", "monthly", "extras"}

NoTasks == [t \in TaskNames |-> "none"]

Pending(t) == tasks[t] \in {"wait", "wait2"}

\* the caller starts an operation when the previous one has returned or raised;
\* the requests a failed update() left in flight have been answered by then
Idle == pc = "idle" /\ \A t \in TaskNames : ~Pending(t)

NoOp == [name |-> "none", now |-> Instants[1]]

\* what the caller can compare an operation's outcome with: the fields the
\* device held when the operation was called
Before(d) ==
    [ parental_control_settings |-> d.parental_control_settings,
      timer_mode |-> d.timer_mode,
      last_month_summary |-> d.last_month_summary,
      players |-> d.players ]

StartHist(name, arg) ==
    [op |-> name, arg |-> arg, result |-> "running", pre |-> Before(dev),
     sent |-> <<>>, ack |-> NoDoc, read |-> NoDoc, calls |-> <<>>, ret |-> <<>>,
     failure |-> <<>>, daily |-> <<>>, extras |-> "none"]

Request(api, body) == [api |-> api, body |-> body]

\* the exceptions an Api call raises: the HttpException of a non-2xx answer,
\* and the client's own error when no answer arrives
ApiErrors == IF Varies("errors") THEN {"HttpException", "ClientError"} ELSE {"HttpException"}

\* the 30 seconds of send_request's expiry test, in ticks of fifteen seconds
GracePeriod == 2

\* expires_in of the token answers, in ticks
TokenLifetimes ==
    IF Varies("tokens") THEN {1, GracePeriod + 1} ELSE {GracePeriod + 1}

\* an Api over an Authenticator that complete_login has logged in: the token
\* is the first one, `remaining` is what is left of it (expiry minus
\* datetime.now(), in ticks, -1 once it is past), account_id is known
NewApi ==
    [ token |-> 1, remaining |-> GracePeriod + 1, calls |-> <<>> ]

\* before NintendoParental.create(): there is no instance
NoClient ==
    [ made |-> FALSE, returned |-> FALSE, devices |-> <<>>, _discovered_devices |-> <<>>,
      at |-> "none", call |-> "none", result |-> "none",
      fetched |-> FALSE, items |-> <<>>, status |-> 0, raised |-> {}, updates |-> {} ]

Start(s) ==
    /\ scenario = s
    /\ dev = NewDevice
    /\ clock = 1
    /\ pc = "idle"
    /\ op = NoOp
    /\ tasks = NoTasks
    /\ cb = NoCallbacks
    /\ hist = [op |-> "none", arg |-> <<>>, result |-> "none", pre |-> Before(NewDevice),
               sent |-> <<>>, ack |-> NoDoc, read |-> NoDoc, calls |-> <<>>, ret |-> <<>>,
     failure |-> <<>>, daily |-> <<>>, extras |-> "none"]
    /\ ops = 0
    /\ faults = 0
    /\ client = NoClient
    /\ dispatcher = NewApi

Init == \E s \in Scenarios : Start(s)

\* time passes
Tick ==
    /\ clock < Len(Timeline)
    /\ clock' = clock + 1
    /\ UNCHANGED <<dev, pc, op, tasks, cb, hist, ops, faults, scenario, client, dispatcher>>

\* Device.add_device_callback
AddDeviceCallback ==
    \E c \in CallbackArguments :
        /\ Idle
        /\ IF c \in Callables
           THEN /\ dev' = [dev EXCEPT !.callbacks = AddDeviceCallbackList(@, c)]
                /\ hist' = [StartHist("add_device_callback", c) EXCEPT !.result = "ok"]
           ELSE /\ dev' = dev
                /\ hist' = [StartHist("add_device_callback", c) EXCEPT
                                !.result = "ValueError"]
        /\ UNCHANGED <<clock, pc, op, tasks, cb, ops, faults, scenario, client, dispatcher>>

\* Device.remove_device_callback
RemoveDeviceCallback ==
    \E c \in CallbackArguments :
        /\ Idle
        /\ IF c \in Callables
           THEN /\ dev' = [dev EXCEPT !.callbacks = RemoveDeviceCallbackList(@, c)]
                /\ hist' = [StartHist("remove_device_callback", c) EXCEPT !.result = "ok"]
           ELSE /\ dev' = dev
                /\ hist' = [StartHist("remove_device_callback", c) EXCEPT
                                !.result = "ValueError"]
        /\ UNCHANGED <<clock, pc, op, tasks, cb, ops, faults, scenario, client, dispatcher>>

\* the dates get_date_summary is asked for
QueryDates ==
    IF Varies("dates")
    THEN { DateTime(2023, 10, 30, 0, 0, 0), DateTime(2023, 10, 31, 23, 59, 0),
           DateTime(2023, 11, 1, 12, 0, 0), DateTime(2023, 11, 2, 0, 0, 0) }
    ELSE { DateTime(2023, 10, 30, 0, 0, 0) }

\* Device.get_date_summary
GetDateSummaryCall ==
    \E input_date \in QueryDates :
        /\ Idle
        /\ LET r == GetDateSummary(dev, input_date)
           IN  hist' = [StartHist("get_date_summary", input_date) EXCEPT
                            !.result = IF r.raised = "no" THEN "ok" ELSE r.raised,
                            !.ret = r.value]
        /\ UNCHANGED <<dev, clock, pc, op, tasks, cb, ops, faults, scenario, client, dispatcher>>

----------------------------------------------------------------------------
(* Device.update() *)

\* update() with its coroutines one after another: only the first is started
UpdateStartsOneRequest ==
    /\ Idle
    /\ ops < MaxOps
    /\ ops' = ops + 1
    /\ pc' = "update"
    /\ op' = [name |-> "update", now |-> Now]
    /\ tasks' = [t \in TaskNames |-> IF t = "daily" THEN "wait" ELSE "none"]
    /\ hist' = [StartHist("update", <<>>) EXCEPT
                  !.sent = << Request("get_device_daily_summaries", <<>>) >>]
    /\ UNCHANGED <<dev, clock, cb, faults, scenario, client, dispatcher>>

\* update(), lines 87-93: `now` is taken and the four coroutines are started;
\* each runs up to the await of its first request
UpdateStart ==
    /\ Idle
    /\ ops < MaxOps
    /\ ops' = ops + 1
    /\ pc' = "update"
    /\ op' = [name |-> "update", now |-> Now]
    /\ tasks' = [t \in TaskNames |-> "wait"]
    /\ hist' = [StartHist("update", <<>>) EXCEPT
                  !.sent = << Request("get_device_daily_summaries", <<>>),
                              Request("get_device_parental_control_setting", <<>>),
                              Request("get_device_monthly_summaries", <<>>),
                              Request("get_account_device", <<>>) >>]
    /\ UNCHANGED <<dev, clock, cb, faults, scenario, client, dispatcher>>

\* the gather's coroutines once coroutine t has ended; when update() is over and
\* the last of them has ended, nothing of the gather is left
TasksAfter(t, state) ==
    LET after == [tasks EXCEPT ![t] = state]
    IN  IF pc # "update" \/ state = "failed"
        THEN [u \in TaskNames |-> IF after[u] \in {"wait", "wait2"} THEN after[u] ELSE "none"]
        ELSE after

\* the operation's own values are gone once nothing of it is running
OpAfter(after) == IF after = NoTasks THEN NoOp ELSE op

Fault == faults < MaxFaults /\ faults' = faults + 1

\* a coroutine of the gather raises: update() raises at once if it is still
\* waiting, and the other coroutines are left running
TaskRaises(t, exc) ==
    /\ Fault
    /\ tasks' = TasksAfter(t, "failed")
    /\ op' = OpAfter(tasks')
    /\ IF pc = "update"
       THEN pc' = "idle" /\ hist' = [hist EXCEPT !.result = exc, !.failure = <<t, exc>>]
       ELSE UNCHANGED <<pc, hist>>
    /\ UNCHANGED <<dev, clock, cb, ops, scenario, client, dispatcher>>

\* Device._get_daily_summaries, lines 549-551
DailySummariesReturn ==
    \E summaries \in DailyResponses :
        /\ tasks["daily"] = "wait"
        /\ dev' = CalculateTimes([dev EXCEPT !.daily_summaries = summaries], op.now)
        /\ tasks' = TasksAfter("daily", "done")
        /\ op' = OpAfter(tasks')
        /\ hist' = IF pc = "update" THEN [hist EXCEPT !.daily = <<summaries>>] ELSE hist
        /\ UNCHANGED <<clock, pc, cb, ops, faults, scenario, client, dispatcher>>

DailySummariesRaise ==
    \E exc \in ApiErrors : tasks["daily"] = "wait" /\ TaskRaises("daily", exc)

\* Device._get_parental_control_setting, lines 540-541
SettingsReturn ==
    \E json \in SettingsResponses :
        /\ tasks["settings"] = "wait"
        /\ dev' = CalculateTimes(ParseParentalControlSetting(dev, json, op.now), op.now)
        /\ tasks' = TasksAfter("settings", "done")
        /\ hist' = IF pc = "update" THEN [hist EXCEPT !.read = json] ELSE hist
        /\ op' = OpAfter(tasks')
        /\ UNCHANGED <<clock, pc, cb, ops, faults, scenario, client, dispatcher>>

SettingsRaise ==
    \E exc \in ApiErrors : tasks["settings"] = "wait" /\ TaskRaises("settings", exc)

\* get_monthly_summary has no except clause
MonthlySummaryCatchesNothing(exc) == FALSE

\* the except clauses of get_monthly_summary, lines 579 and 605
MonthlySummaryCatches(exc) == exc = "HttpException"

\* Device.get_monthly_summary, lines 583-599: the list of months
MonthlyListReturn ==
    \E available \in AvailableResponses :
        /\ tasks["monthly"] = "wait"
        /\ tasks' = TasksAfter("monthly", IF Len(available) = 0 THEN "done" ELSE "wait2")
        /\ hist' = IF pc = "update" /\ Len(available) > 0
                   THEN [hist EXCEPT !.sent =
                            Append(@, Request("get_device_monthly_summary", available[1]))]
                   ELSE hist
        /\ op' = OpAfter(tasks')
        /\ UNCHANGED <<dev, clock, pc, cb, ops, faults, scenario, client, dispatcher>>

\* lines 579-581
MonthlyListRaise ==
    \E exc \in ApiErrors :
        /\ tasks["monthly"] = "wait"
        /\ IF MonthlySummaryCatches(exc)
           THEN /\ Fault
                /\ tasks' = TasksAfter("monthly", "done")
                /\ op' = OpAfter(tasks')
                /\ hist' = IF pc = "update"
                           THEN [hist EXCEPT !.failure = <<"monthly", exc>>]
                           ELSE hist
                /\ UNCHANGED <<dev, clock, pc, cb, ops, scenario, client, dispatcher>>
           ELSE TaskRaises("monthly", exc)

\* lines 612-631
MonthlySummaryReturn ==
    \E summary \in MonthlyResponses :
        /\ tasks["monthly"] = "wait2"
        /\ dev' = StoreMonthlySummary(dev, summary)
        /\ tasks' = TasksAfter("monthly", "done")
        /\ op' = OpAfter(tasks')
        /\ UNCHANGED <<clock, pc, cb, hist, ops, faults, scenario, client, dispatcher>>

\* lines 605-611
MonthlySummaryRaise ==
    \E exc \in ApiErrors :
        /\ tasks["monthly"] = "wait2"
        /\ IF MonthlySummaryCatches(exc)
           THEN /\ Fault
                /\ tasks' = TasksAfter("monthly", "done")
                /\ op' = OpAfter(tasks')
                /\ hist' = IF pc = "update"
                           THEN [hist EXCEPT !.failure = <<"monthly", exc>>]
                           ELSE hist
                /\ UNCHANGED <<dev, clock, pc, cb, ops, scenario, client, dispatcher>>
           ELSE TaskRaises("monthly", exc)

\* Device._get_extras, lines 561-563
ExtrasReturn ==
    \E visibility \in ExtrasResponses :
        /\ tasks["extras"] = "wait"
        /\ dev' = [dev EXCEPT !.alarms_enabled = (visibility = "VISIBLE")]
        /\ tasks' = TasksAfter("extras", "done")
        /\ op' = OpAfter(tasks')
        /\ hist' = IF pc = "update" THEN [hist EXCEPT !.extras = visibility] ELSE hist
        /\ UNCHANGED <<clock, pc, cb, ops, faults, scenario, client, dispatcher>>

ExtrasRaise ==
    \E exc \in ApiErrors : tasks["extras"] = "wait" /\ TaskRaises("extras", exc)

\* update(), lines 94-97: the gather has returned; the players and the
\* applications are brought up to date and _execute_callbacks is entered
UpdateJoin ==
    /\ pc = "update"
    /\ \A t \in TaskNames : tasks[t] = "done"
    /\ dev' = UpdateApplications(UpdatePlayers(dev))
    /\ pc' = "callbacks"
    /\ cb' = NoCallbacks
    /\ tasks' = NoTasks
    /\ UNCHANGED <<clock, op, hist, ops, faults, scenario, client, dispatcher>>

----------------------------------------------------------------------------
(* Device._execute_callbacks *)

\* the loop calls (and, for a coroutine function, awaits) its next callback.
\* An Application's _internal_update_callback awaits nothing of its own and is
\* through within the step; a callback of the caller runs until it returns or
\* raises.
InvokeCallback ==
    /\ pc = "callbacks"
    /\ cb.next <= Len(ExecutionOrder(dev))
    /\ CanInvoke(cb)
    /\ LET c == ExecutionOrder(dev)[cb.next]
       IN  /\ dev' = IF c.kind = "internal" THEN InternalUpdateCallback(dev, c.id) ELSE dev
           /\ hist' = [hist EXCEPT !.calls = Append(@, c)]
           /\ cb' = [next |-> cb.next + 1,
                     running |-> IF c.kind = "internal" THEN cb.running
                                 ELSE cb.running \cup {cb.next}]
    /\ UNCHANGED <<clock, pc, op, tasks, ops, faults, scenario, client, dispatcher>>

\* a callback returns
CallbackReturns ==
    \E i \in cb.running :
        /\ pc = "callbacks"
        /\ cb' = [cb EXCEPT !.running = @ \ {i}]
        /\ UNCHANGED <<dev, clock, pc, op, tasks, hist, ops, faults, scenario, client, dispatcher>>

\* a callback raises: no handler in _execute_callbacks, the operation raises
CallbackRaises ==
    \E i \in cb.running :
        /\ pc = "callbacks"
        /\ pc' = "idle"
        /\ cb' = NoCallbacks
        /\ hist' = [hist EXCEPT !.result = "CallbackError"]
        /\ op' = NoOp
        /\ Fault
        /\ UNCHANGED <<dev, clock, tasks, ops, scenario, client, dispatcher>>

\* both loops are through: the operation returns
ExecuteCallbacksDone ==
    /\ pc = "callbacks"
    /\ cb.next > Len(ExecutionOrder(dev))
    /\ cb.running = {}
    /\ pc' = "idle"
    /\ cb' = NoCallbacks
    /\ hist' = [hist EXCEPT !.result = "ok"]
    /\ op' = NoOp
    /\ UNCHANGED <<dev, clock, tasks, ops, faults, scenario, client, dispatcher>>

----------------------------------------------------------------------------
(* The mutation methods *)

\* a mutation method is called: out is what its validation and its edit give,
\* and, when nothing was raised, the request is sent and the method awaits
Mutate(name, arg, out, api, body, wait, now) ==
    /\ Idle
    /\ ops < MaxOps
    /\ ops' = ops + 1
    /\ dev' = out.dev
    /\ IF out.raised = "no"
       THEN /\ pc' = wait
            /\ op' = [name |-> name, now |-> now]
            /\ hist' = [StartHist(name, arg) EXCEPT !.sent = <<Request(api, body)>>]
       ELSE /\ pc' = "idle"
            /\ op' = op
            /\ hist' = [StartHist(name, arg) EXCEPT !.result = out.raised]
    /\ UNCHANGED <<clock, tasks, cb, faults, scenario, client, dispatcher>>

Synced == dev.parental_control_settings # NoDoc

PlayTimerBody(out) == out.dev.parental_control_settings.playTimerRegulations

Pins == {"1234"}
ExtraMinutes == {10}

\* Device.set_new_pin
SetNewPin ==
    \E pin \in Pins :
        Mutate("set_new_pin", pin, Outcome("no", dev), "update_unlock_code", pin,
               "send_api_update", Now)

\* Device.set_restriction_mode, up to its request
SetRestrictionMode ==
    \E mode \in RestrictionModes :
        /\ Synced
        /\ LET out == SetRestrictionModeEdit(dev, mode)
           IN  Mutate("set_restriction_mode", mode, out, "update_play_timer",
                      PlayTimerBody(out), "set_restriction_mode", Now)

\* Device.set_bedtime_alarm, up to its request
SetBedtimeAlarm ==
    \E value \in BedtimeAlarmValues :
        /\ Synced
        /\ LET out == SetBedtimeAlarmEdit(dev, value, Now)
           IN  Mutate("set_bedtime_alarm", value, out, "update_play_timer",
                      PlayTimerBody(out), "send_api_update", Now)

\* Device.set_bedtime_end_time, up to its request
SetBedtimeEndTime ==
    \E value \in BedtimeEndValues :
        /\ Synced
        /\ LET out == SetBedtimeEndTimeEdit(dev, value, Now)
           IN  Mutate("set_bedtime_end_time", value, out, "update_play_timer",
                      PlayTimerBody(out), "send_api_update", Now)

\* Device.set_timer_mode, up to its request
SetTimerMode ==
    \E mode \in TimerModes :
        /\ Synced
        /\ LET out == SetTimerModeEdit(dev, mode)
           IN  Mutate("set_timer_mode", mode, out, "update_play_timer",
                      PlayTimerBody(out), "send_api_update", Now)

\* Device.set_daily_restrictions, up to its request
SetDailyRestrictions ==
    \E a \in DailyRestrictionValues :
        /\ Synced
        /\ LET out == SetDailyRestrictionsEdit(dev, a)
           IN  Mutate("set_daily_restrictions", a, out, "update_play_timer",
                      PlayTimerBody(out), "send_api_update", Now)

\* Device.set_functional_restriction_level, up to its request
SetFunctionalRestrictionLevel ==
    \E level \in RestrictionLevels :
        /\ Synced
        /\ LET out == SetFunctionalRestrictionLevelEdit(dev, level)
           IN  Mutate("set_functional_restriction_level", level, out,
                      "update_restriction_level", out.dev.parental_control_settings,
                      "send_api_update", Now)

\* Device.update_max_daily_playtime, up to its request
UpdateMaxDailyPlaytime ==
    \E minutes \in PlaytimeValues :
        /\ Synced
        /\ LET out == UpdateMaxDailyPlaytimeEdit(dev, minutes, Now)
           IN  Mutate("update_max_daily_playtime", minutes, out, "update_play_timer",
                      PlayTimerBody(out), "send_api_update", Now)

\* Device.add_extra_time, up to its first request
AddExtraTime ==
    \E minutes \in ExtraMinutes :
        Mutate("add_extra_time", minutes, Outcome("no", dev),
               "update_extra_playing_time", minutes, "add_extra_time", Now)

\* the values of SafeLaunchSetting
SafeLaunchSettings == IF Varies("launch") THEN {"NONE", "ALLOW"} ELSE {"ALLOW"}

\* Application._parental_control_settings: the dict the application was given
\* by its last callback, which is the device's own dict until the device binds
\* its attribute to another one
ApplicationSettings(d, id) ==
    IF d.applications[id].alias THEN d.parental_control_settings
    ELSE d.applications[id].doc

\* Application.set_safe_launch_setting, lines 52-66: what it raises
SetSafeLaunchSettingCheck(d, id) ==
    LET pcs == ApplicationSettings(d, id)
    IN  IF ~d.applications[id].synced \/ pcs = NoDoc THEN "ValueError"
        ELSE IF \A i \in 1 .. Len(pcs.whitelistedApplicationList) :
                    pcs.whitelistedApplicationList[i].applicationId # id
        THEN "LookupError"
        ELSE "no"

\* lines 58-62: the deep copy of the application's dict in which the first
\* whitelist entry of the application has the new safeLaunch
SafeLaunchBody(d, id, safe_launch_setting) ==
    LET pcs == ApplicationSettings(d, id)
        wl == pcs.whitelistedApplicationList
        first == CHOOSE i \in 1 .. Len(wl) :
                    /\ wl[i].applicationId = id
                    /\ \A j \in 1 .. i - 1 : wl[j].applicationId # id
    IN  [pcs EXCEPT !.whitelistedApplicationList[first].safeLaunch = safe_launch_setting]

\* Application.set_safe_launch_setting, up to its request; the caller has the
\* Application from Device.applications
SetSafeLaunchSetting ==
    \E id \in DOMAIN dev.applications, v \in SafeLaunchSettings :
        /\ Idle
        /\ LET raised == SetSafeLaunchSettingCheck(dev, id)
               started == StartHist("set_safe_launch_setting", [id |-> id, value |-> v])
           IN  IF raised = "no"
               THEN /\ pc' = "send_api_update"
                    /\ op' = [name |-> "set_safe_launch_setting", now |-> Now]
                    /\ hist' = [started EXCEPT !.sent =
                                    <<Request("update_restriction_level",
                                              SafeLaunchBody(dev, id, v))>>]
               ELSE /\ pc' = "idle"
                    /\ op' = op
                    /\ hist' = [started EXCEPT !.result = raised]
        /\ UNCHANGED <<dev, clock, tasks, cb, ops, faults, scenario, client, dispatcher>>

\* an awaited Api call raises and nothing handles it: the method raises
MethodRaises(exc) ==
    /\ Fault
    /\ pc' = "idle"
    /\ hist' = [hist EXCEPT !.result = exc]
    /\ op' = NoOp
    /\ UNCHANGED <<dev, clock, tasks, cb, ops, scenario, client, dispatcher>>

\* Device._send_api_update, lines 130-132: the acknowledgment arrives
SendApiUpdateReturn ==
    \E json \in SettingsResponses :
        /\ pc = "send_api_update"
        /\ dev' = CalculateTimes(ParseParentalControlSetting(dev, json, op.now), op.now)
        /\ hist' = [hist EXCEPT !.ack = json]
        /\ pc' = "callbacks"
        /\ cb' = NoCallbacks
        /\ UNCHANGED <<clock, op, tasks, ops, faults, scenario, client, dispatcher>>

SendApiUpdateRaise ==
    \E exc \in ApiErrors : pc = "send_api_update" /\ MethodRaises(exc)

\* Device.set_restriction_mode, lines 159-162: `now` is taken after the answer
\* and the times are not calculated again
SetRestrictionModeReturn ==
    \E json \in SettingsResponses :
        /\ pc = "set_restriction_mode"
        /\ dev' = ParseParentalControlSetting(dev, json, Now)
        /\ hist' = [hist EXCEPT !.ack = json]
        /\ pc' = "callbacks"
        /\ cb' = NoCallbacks
        /\ UNCHANGED <<clock, op, tasks, ops, faults, scenario, client, dispatcher>>

SetRestrictionModeRaise ==
    \E exc \in ApiErrors : pc = "set_restriction_mode" /\ MethodRaises(exc)

\* Device.add_extra_time, lines 146-147: the acknowledgment holds no settings;
\* `now` is taken and the settings are read
AddExtraTimeReturn ==
    /\ pc = "add_extra_time"
    /\ pc' = "add_extra_time_read"
    /\ op' = [op EXCEPT !.now = Now]
    /\ hist' = [hist EXCEPT !.sent =
                  Append(@, Request("get_device_parental_control_setting", <<>>))]
    /\ UNCHANGED <<dev, clock, tasks, cb, ops, faults, scenario, client, dispatcher>>

AddExtraTimeRaise ==
    \E exc \in ApiErrors : pc = "add_extra_time" /\ MethodRaises(exc)

\* Device._get_parental_control_setting, lines 540-541, as add_extra_time awaits
\* it: the method returns when it does
AddExtraTimeReadReturn ==
    \E json \in SettingsResponses :
        /\ pc = "add_extra_time_read"
        /\ dev' = CalculateTimes(ParseParentalControlSetting(dev, json, op.now), op.now)
        /\ hist' = [hist EXCEPT !.read = json, !.result = "ok"]
        /\ pc' = "idle"
        /\ op' = NoOp
        /\ UNCHANGED <<clock, tasks, cb, ops, faults, scenario, client, dispatcher>>

AddExtraTimeReadRaise ==
    \E exc \in ApiErrors : pc = "add_extra_time_read" /\ MethodRaises(exc)

----------------------------------------------------------------------------

\* update() with every request answered
Update ==
    \/ UpdateStart
    \/ DailySummariesReturn
    \/ SettingsReturn
    \/ MonthlyListReturn
    \/ MonthlySummaryReturn
    \/ ExtrasReturn
    \/ UpdateJoin
    \/ InvokeCallback
    \/ ExecuteCallbacksDone

\* a request of update() fails
UpdateFails ==
    \/ DailySummariesRaise
    \/ SettingsRaise
    \/ MonthlyListRaise
    \/ MonthlySummaryRaise
    \/ ExtrasRaise

\* the callbacks of the caller
Observers ==
    \/ AddDeviceCallback
    \/ CallbackReturns
    \/ CallbackRaises

\* the mutation methods
Mutations ==
    \/ SetNewPin
    \/ SetRestrictionMode
    \/ SetBedtimeAlarm
    \/ SetBedtimeEndTime
    \/ SetTimerMode
    \/ SetDailyRestrictions
    \/ SetFunctionalRestrictionLevel
    \/ UpdateMaxDailyPlaytime
    \/ AddExtraTime
    \/ SendApiUpdateReturn
    \/ SendApiUpdateRaise
    \/ SetRestrictionModeReturn
    \/ SetRestrictionModeRaise
    \/ AddExtraTimeReturn
    \/ AddExtraTimeRaise
    \/ AddExtraTimeReadReturn
    \/ AddExtraTimeReadRaise

(* Api.send_request and the token of its Authenticator *)

\* the keys of const.ENDPOINTS
ENDPOINTS ==
    { "get_account_details", "get_account_devices", "get_account_device",
      "get_device_daily_summaries", "get_device_monthly_summaries",
      "get_device_parental_control_setting",
      "update_device_parental_control_setting",
      "update_device_whitelisted_applications",
      "get_device_parental_control_setting_state",
      "update_device_alarm_setting_state", "get_device_alarm_setting_state",
      "get_device_monthly_summary" }

\* the endpoint arguments of the calls of a run
EndpointArguments == {"get_account_devices", "invalid_endpoint"}

\* what perform_refresh raises on a token answer of 400 and on another
\* answer that is not 200 (it treats 401 as it treats 400)
RefreshErrors ==
    IF Varies("tokens") THEN {"InvalidSessionTokenException", "HttpException"}
    ELSE {"HttpException"}

\* a Python value that is a str or an int: the arguments of HttpException
\* are not typed at run time
StrValue(text) == [type |-> "str", str |-> text, int |-> 0]
IntValue(n) == [type |-> "int", str |-> "", int |-> n]
NoneValue == [type |-> "NoneType", str |-> "", int |-> 0]

\* HttpException.__init__(status_code, message, error_code=None)
HttpException(status_code, message, error_code) ==
    [status_code |-> status_code, message |-> message, error_code |-> error_code]

NoException == HttpException(NoneValue, NoneValue, NoneValue)

\* the answers to a request: the status, the text of the body, and whether
\* the body decodes as JSON
ResponseStatuses ==
    IF Varies("responses") THEN {199, 200, 299, 300, 500} ELSE {200, 500}

ResponseTexts == {"Internal Server Error"}

Responses ==
    [ status : ResponseStatuses, text : ResponseTexts,
      decodable : IF Varies("responses") THEN BOOLEAN ELSE {TRUE} ]

NoResponse == [status |-> 0, text |-> "", decodable |-> FALSE]

_check_http_success(status) == status >= 200 /\ status < 300

\* lines 102-120: what send_request does with the answer to its request;
\* json is "body" for the decoded body and "{}" for the empty dict
SendRequestAnswered(call, response) ==
    IF _check_http_success(response.status)
    THEN [call EXCEPT !.at = "ended", !.result = "ok", !.response = response,
                      !.json = IF response.decodable THEN "body" ELSE "{}"]
    ELSE [call EXCEPT !.at = "ended", !.result = "HttpException",
                      !.response = response,
                      !.exception = HttpException(StrValue("HTTP Error"),
                                                  IntValue(response.status),
                                                  StrValue(response.text))]

\* line 79 without the thirty seconds
ExpiresNow(a) == a.remaining < 0

\* line 79: self._auth.expires < datetime.now() + timedelta(seconds=30)
ExpiresSoon(a) == a.remaining < GracePeriod

\* lines 83-97: the request goes out with the Authorization header read at
\* line 92
SendsRequest(a, call) ==
    [call EXCEPT !.at = "request", !.sent = TRUE, !.sent_token = a.token,
                 !.sent_remaining = a.remaining]

\* send_request up to its first await
SendRequestStart(a, endpoint) ==
    LET call == [ endpoint |-> endpoint, at |-> "start", result |-> "running",
                  start_token |-> a.token, start_remaining |-> a.remaining,
                  refreshing |-> FALSE, refreshed |-> FALSE,
                  sent |-> FALSE, sent_token |-> 0, sent_remaining |-> 0,
                  response |-> NoResponse, json |-> "none",
                  exception |-> NoException ]
    IN  IF endpoint \notin ENDPOINTS
        THEN [call EXCEPT !.at = "ended", !.result = "ValueError"]
        ELSE IF ExpiresSoon(a)
        THEN [call EXCEPT !.at = "refresh", !.refreshing = TRUE]
        ELSE SendsRequest(a, call)

\* Authenticator._read_tokens: a new token that lasts expires_in
ReadTokens(a, expires_in) ==
    [a EXCEPT !.token = @ + 1, !.remaining = expires_in]

\* a caller, or a coroutine of Device.update's gather, calls send_request
SendRequest ==
    \E endpoint \in EndpointArguments :
        /\ ops < MaxOps
        /\ ops' = ops + 1
        /\ dispatcher' = [dispatcher EXCEPT
                              !.calls = Append(@, SendRequestStart(dispatcher, endpoint))]
        /\ UNCHANGED <<dev, clock, pc, op, tasks, cb, hist, faults, scenario, client>>

\* the token request of a call's perform_refresh answers 200: the tokens are
\* read and send_request goes on to its request without another await
PerformRefreshReturn ==
    \E i \in DOMAIN dispatcher.calls, expires_in \in TokenLifetimes :
        /\ dispatcher.calls[i].at = "refresh"
        /\ LET a == ReadTokens(dispatcher, expires_in)
           IN  dispatcher' = [a EXCEPT !.calls[i] =
                                 SendsRequest(a, [@ EXCEPT !.refreshed = TRUE])]
        /\ UNCHANGED <<dev, clock, pc, op, tasks, cb, hist, ops, faults, scenario, client>>

\* the token request answers otherwise: perform_refresh raises and so does
\* send_request
PerformRefreshRaise ==
    \E i \in DOMAIN dispatcher.calls, exc \in RefreshErrors :
        /\ dispatcher.calls[i].at = "refresh"
        /\ dispatcher' = [dispatcher EXCEPT !.calls[i].at = "ended",
                                            !.calls[i].result = exc]
        /\ UNCHANGED <<dev, clock, pc, op, tasks, cb, hist, ops, faults, scenario, client>>

\* the request is answered 2xx: lines 102-120
SendRequestReturn ==
    \E i \in DOMAIN dispatcher.calls, response \in Responses :
        /\ dispatcher.calls[i].at = "request"
        /\ _check_http_success(response.status)
        /\ dispatcher' = [dispatcher EXCEPT !.calls[i] = SendRequestAnswered(@, response)]
        /\ UNCHANGED <<dev, clock, pc, op, tasks, cb, hist, ops, faults, scenario, client>>

\* the request is answered otherwise: line 117
SendRequestRaise ==
    \E i \in DOMAIN dispatcher.calls, response \in Responses :
        /\ dispatcher.calls[i].at = "request"
        /\ ~_check_http_success(response.status)
        /\ dispatcher' = [dispatcher EXCEPT !.calls[i] = SendRequestAnswered(@, response)]
        /\ UNCHANGED <<dev, clock, pc, op, tasks, cb, hist, ops, faults, scenario, client>>

\* fifteen seconds pass
TokenAges ==
    /\ dispatcher.remaining >= 0
    /\ dispatcher' = [dispatcher EXCEPT !.remaining = @ - 1]
    /\ UNCHANGED <<dev, clock, pc, op, tasks, cb, hist, ops, faults, scenario, client>>

Dispatching ==
    \/ SendRequest \/ TokenAges
    \/ PerformRefreshReturn \/ PerformRefreshRaise
    \/ SendRequestReturn \/ SendRequestRaise

(* NintendoParental: create() and update() over the devices of the account *)

\* response["json"]["items"] of get_account_devices, by device id
DeviceLists == {<<>>, <<"d1">>, <<"d2">>, <<"d1", "d2">>, <<"d2", "d1">>}

\* the non-2xx statuses the device-list request can answer
ListStatuses == {404, 500}

Range(seq) == {seq[i] : i \in 1 .. Len(seq)}

\* NintendoParental.__init__
NewClient ==
    [NoClient EXCEPT !.made = TRUE]

\* _get_devices up to its first await; `call` is the method the caller awaits
GetDevicesStart(c, call) ==
    [c EXCEPT !.at = "fetch", !.call = call, !.result = "running",
              !.fetched = FALSE, !.items = <<>>, !.status = 0, !.raised = {},
              !.updates = {}]

\* lines 35-40: a Device for every item, kept when its id is new
RECURSIVE Discover(_, _)
Discover(c, items) ==
    IF items = <<>> THEN c
    ELSE LET id == Head(items)
             next == IF id \in Range(c._discovered_devices) THEN c
                     ELSE [c EXCEPT !.devices = Append(@, id),
                                    !._discovered_devices = Append(@, id)]
         IN  Discover(next, Tail(items))

\* the method the caller awaits returns; create() hands out the instance
ClientReturns(c) ==
    [c EXCEPT !.at = "none", !.result = "ok", !.updates = {},
              !.returned = (c.returned \/ c.call = "create")]

\* the method the caller awaits raises; after create() there is no instance
ClientRaises(c, exc) ==
    [c EXCEPT !.at = "none", !.result = exc, !.updates = {}]

\* line 43-45: the handler of whatever the try block raised
GetDevicesExcept(c) ==
    ClientRaises([c EXCEPT !.devices = <<>>], "RuntimeError")

\* NintendoParental.create
Create ==
    /\ client.at = "none"
    /\ ~client.returned
    /\ ops < MaxOps
    /\ ops' = ops + 1
    /\ client' = GetDevicesStart(NewClient, "create")
    /\ UNCHANGED <<dev, clock, pc, op, tasks, cb, hist, faults, scenario, dispatcher>>

\* NintendoParental.update on the instance create() returned
ClientUpdate ==
    /\ client.at = "none"
    /\ client.returned
    /\ ops < MaxOps
    /\ ops' = ops + 1
    /\ client' = GetDevicesStart(client, "update")
    /\ UNCHANGED <<dev, clock, pc, op, tasks, cb, hist, faults, scenario, dispatcher>>

\* the device-list request answers 2xx: lines 34-42 up to the gather, which
\* has nothing to wait for when there are no devices
GetDevicesReturn ==
    \E items \in DeviceLists :
        /\ client.at = "fetch"
        /\ LET found == Discover([client EXCEPT !.fetched = TRUE, !.items = items], items)
           IN  client' = IF found.devices = <<>> THEN ClientReturns(found)
                         ELSE [found EXCEPT !.at = "gather",
                                            !.updates = Range(found.devices)]
        /\ UNCHANGED <<dev, clock, pc, op, tasks, cb, hist, ops, faults, scenario, dispatcher>>

\* the device-list request answers non-2xx: send_request raises HttpException
\* outside the try block
GetDevicesRaise ==
    \E status \in ListStatuses :
        /\ client.at = "fetch"
        /\ client' = ClientRaises([client EXCEPT !.status = status], "HttpException")
        /\ UNCHANGED <<dev, clock, pc, op, tasks, cb, hist, ops, faults, scenario, dispatcher>>

\* update_device(d) of the gather returns
DeviceUpdateReturn ==
    \E id \in client.updates :
        /\ client.at = "gather"
        /\ client' = [client EXCEPT !.updates = @ \ {id}]
        /\ UNCHANGED <<dev, clock, pc, op, tasks, cb, hist, ops, faults, scenario, dispatcher>>

\* update_device(d) of the gather raises what Device.update raised: the
\* gather raises it at once and the handler runs
DeviceUpdateRaise ==
    \E id \in client.updates :
        /\ client.at = "gather"
        /\ client' = GetDevicesExcept([client EXCEPT !.raised = @ \cup {id}])
        /\ UNCHANGED <<dev, clock, pc, op, tasks, cb, hist, ops, faults, scenario, dispatcher>>

\* every coroutine of the gather has returned: _get_devices returns
GetDevicesDone ==
    /\ client.at = "gather"
    /\ client.updates = {}
    /\ client' = ClientReturns(client)
    /\ UNCHANGED <<dev, clock, pc, op, tasks, cb, hist, ops, faults, scenario, dispatcher>>

Discovery ==
    \/ Create \/ ClientUpdate
    \/ GetDevicesReturn \/ GetDevicesRaise
    \/ DeviceUpdateReturn \/ DeviceUpdateRaise \/ GetDevicesDone

Next ==
    \/ Discovery \/ Dispatching
    \/ Tick \/ Update \/ UpdateFails \/ Observers \/ RemoveDeviceCallback
    \/ GetDateSummaryCall \/ Mutations \/ SetSafeLaunchSetting

Spec == Init /\ [][Next]_vars

\* One specification for each scenario, with the operations the scenario is
\* about: the mutation methods on a device that update() has filled in and that
\* the caller observes; the times of day of update(); the callbacks around
\* update(); the monthly summary of update(); get_date_summary after update();
\* the setters that validate their argument, with values at and around the
\* limits of what they accept.
NextSettings == Tick \/ Update \/ Observers \/ Mutations
NextTimes == Tick \/ Update \/ UpdateFails
NextObservers == Tick \/ Update \/ UpdateFails \/ Observers \/ RemoveDeviceCallback
NextMonthly == Tick \/ Update \/ UpdateFails \/ Observers
NextQueries == Tick \/ Update \/ UpdateFails \/ GetDateSummaryCall
NextRemaining == Tick \/ Update
NextValidation ==
    \/ Tick \/ Update
    \/ SetBedtimeAlarm \/ SetBedtimeEndTime \/ SetDailyRestrictions
    \/ UpdateMaxDailyPlaytime
    \/ SendApiUpdateReturn \/ SendApiUpdateRaise

SpecSettings == Start("settings") /\ [][NextSettings]_vars
SpecTimes == Start("times") /\ [][NextTimes]_vars
SpecObservers == Start("observers") /\ [][NextObservers]_vars
SpecMonthly == Start("monthly") /\ [][NextMonthly]_vars
SpecQueries == Start("queries") /\ [][NextQueries]_vars
SpecValidation == Start("validation") /\ [][NextValidation]_vars

\* update() through one day, up to its last hours, with and without a limit
SpecRemaining == Start("remaining") /\ [][NextRemaining]_vars

\* the applications of a device: update(), add_extra_time and
\* Application.set_safe_launch_setting
NextApplications ==
    \/ Tick \/ Update
    \/ AddExtraTime \/ AddExtraTimeReturn \/ AddExtraTimeRaise
    \/ AddExtraTimeReadReturn \/ AddExtraTimeReadRaise
    \/ SetSafeLaunchSetting \/ SendApiUpdateReturn \/ SendApiUpdateRaise

SpecApplications == Start("applications") /\ [][NextApplications]_vars

\* the devices of the account: create() and update() of NintendoParental
NextDiscovery ==
    \/ Create \/ ClientUpdate
    \/ GetDevicesReturn \/ GetDevicesRaise
    \/ DeviceUpdateReturn \/ DeviceUpdateRaise \/ GetDevicesDone

SpecDiscovery == Start("discovery") /\ [][NextDiscovery]_vars

\* the calls of Api.send_request, in any interleaving, while the token ages
NextDispatcher ==
    \/ SendRequest \/ TokenAges
    \/ PerformRefreshReturn \/ PerformRefreshRaise
    \/ SendRequestReturn \/ SendRequestRaise

SpecDispatcher == Start("dispatcher") /\ [][NextDispatcher]_vars

\* the answers Api.send_request gets to its requests
SpecResponses == Start("responses") /\ [][NextDispatcher]_vars

----------------------------------------------------------------------------
(* Properties *)

\* an operation has returned normally / the last operation was one of these
Returned(names) == pc = "idle" /\ hist.op \in names /\ hist.result = "ok"

\* the methods that go through _send_api_update or parse the acknowledgment
\* themselves
AckMethods ==
    { "set_new_pin", "set_restriction_mode", "set_bedtime_alarm", "set_bedtime_end_time",
      "set_timer_mode", "set_daily_restrictions", "update_max_daily_playtime",
      "set_functional_restriction_level" }

MutationMethods == AckMethods \cup {"add_extra_time"}

\* a settings document as the device keeps it: without the two bedtime keys
\* that parsing removes from playTimerRegulations
Kept(doc) == [doc EXCEPT !.playTimerRegulations.legacyBedtime = FALSE]

\* C1, as stated: when a mutation method (add_extra_time included) returns
\* normally, the acknowledgment of its write embeds a settings document and the
\* device holds exactly that document.
C1_HoldsAcknowledgedDocument ==
    Returned(MutationMethods) =>
        /\ hist.ack # NoDoc
        /\ dev.parental_control_settings = hist.ack.parentalControlSetting

\* C1, amended: when one of the eight methods that parse their acknowledgment
\* returns normally, the device holds the document of the acknowledgment less
\* the two bedtime keys parsing removes; when add_extra_time returns normally,
\* whose acknowledgment embeds no document, the device holds, likewise, the
\* document of the settings read the method made after its write. In neither
\* case is it the document the method edited and sent.
C1_HoldsServerDocument ==
    /\ Returned(AckMethods) =>
            /\ hist.ack # NoDoc
            /\ dev.parental_control_settings = Kept(hist.ack.parentalControlSetting)
    /\ Returned({"add_extra_time"}) =>
            /\ hist.ack = NoDoc
            /\ hist.read # NoDoc
            /\ dev.parental_control_settings = Kept(hist.read.parentalControlSetting)

\* set_restriction_mode has returned, acknowledged with a document that differs
\* from the one it sent and that carries the two bedtime keys
C1_Witness ==
    /\ Returned({"set_restriction_mode"})
    /\ hist.ack.parentalControlSetting.playTimerRegulations # hist.sent[1].body
    /\ hist.ack.parentalControlSetting.playTimerRegulations.legacyBedtime

\* C2: when the request of a mutation method fails with an HTTP error, the
\* device's settings document and timer_mode are the same as before the call.
C2_FailedRequestLeavesDocument ==
    (pc = "idle" /\ hist.op \in MutationMethods /\ hist.result = "HttpException") =>
        /\ dev.parental_control_settings = hist.pre.parental_control_settings
        /\ dev.timer_mode = hist.pre.timer_mode

\* an update() returns normally in this step
UpdateReturns ==
    pc = "callbacks" /\ op.name = "update" /\ pc' = "idle" /\ hist'.result = "ok"

\* C3: after every update() that returns normally, today_time_remaining is a
\* whole number in [0, 1440] and is not greater than the number of minutes from
\* that update's now to midnight.
C3_RemainingTimeWithinDay ==
    [][UpdateReturns =>
          /\ dev'.today_time_remaining \in 0 .. MinutesInDay
          /\ dev'.today_time_remaining <= MinutesInDay - MinutesPastMidnight(op.now)]_vars

\* a mutation method returns normally in this step
MutationReturns ==
    pc # "idle" /\ op.name \in MutationMethods /\ pc' = "idle" /\ hist'.result = "ok"

\* C4: each mutation method, add_extra_time and set_restriction_mode included,
\* when it returns normally has applied the server's response as the settings
\* document, has recomputed the derived fields from it, and has invoked every
\* internal and external callback once, in sequence.
C4_AppliesRecomputesNotifies ==
    [][MutationReturns =>
          /\ dev'.parental_control_settings =
                Kept((IF hist'.ack # NoDoc THEN hist'.ack ELSE hist'.read).parentalControlSetting)
          /\ dev' = CalculateTimes(dev', op.now)
          /\ hist'.calls = ExecutionOrder(dev')]_vars

ToSet(list) == {list[i] : i \in 1..Len(list)}

NoDuplicates(list) == Cardinality(ToSet(list)) = Len(list)

\* the external callbacks among the callbacks an operation invoked, in order
Externals(calls) == SelectSeq(calls, LAMBDA c : c.kind = "external")

\* the last call was add_device_callback / remove_device_callback and this step
\* is that call or leaves the device alone
Registers == hist'.op = "add_device_callback" /\ clock' = clock
Unregisters == hist'.op = "remove_device_callback" /\ clock' = clock

\* C5: registering a callable adds it to the registered callbacks, once;
\* removing it takes it out; with a non-callable either call raises ValueError
\* and leaves the list as it was; nothing else changes the list. The callbacks
\* run only when update() has recomputed the players and rebuilt the
\* Application map from the data it fetched, and an update() that returns
\* normally has invoked each registered callback exactly once and no other.
C5_RegisteredCallbacksInvokedOnce ==
    [][/\ Registers =>
            IF hist'.arg \in Callables
            THEN /\ hist'.result = "ok"
                 /\ ToSet(dev'.callbacks) = ToSet(dev.callbacks) \cup {hist'.arg}
                 /\ NoDuplicates(dev'.callbacks)
            ELSE hist'.result = "ValueError" /\ dev'.callbacks = dev.callbacks
       /\ Unregisters =>
            IF hist'.arg \in Callables
            THEN /\ hist'.result = "ok"
                 /\ ToSet(dev'.callbacks) = ToSet(dev.callbacks) \ {hist'.arg}
                 /\ NoDuplicates(dev'.callbacks)
            ELSE hist'.result = "ValueError" /\ dev'.callbacks = dev.callbacks
       /\ hist'.op \notin {"add_device_callback", "remove_device_callback"} =>
            dev'.callbacks = dev.callbacks
       /\ (pc' = "callbacks" /\ op'.name = "update") =>
            dev' = UpdateApplications(UpdatePlayers(dev'))
       /\ UpdateReturns =>
            Externals(hist'.calls) =
                [i \in 1..Len(dev'.callbacks) |-> ExternalCallback(dev'.callbacks[i])]]_vars

\* a second update() has returned normally and has invoked two registered
\* callbacks
C5_Witness ==
    /\ Returned({"update"})
    /\ ops = 2
    /\ Externals(hist.calls) = <<ExternalCallback("g"), ExternalCallback("f")>>

\* the internal callbacks in registration order, then the external callbacks in
\* registration order
RegistrationOrder ==
    [i \in 1..Len(dev.internal_callbacks) |->
        [kind |-> "internal", id |-> dev.internal_callbacks[i]]]
    \o [i \in 1..Len(dev.callbacks) |-> [kind |-> "external", id |-> dev.callbacks[i]]]

\* C6: whenever the observer sequence invokes a callback, the callback invoked
\* before it has finished, none has raised, and the callback is the next one of
\* the internal callbacks in registration order followed by the external
\* callbacks in registration order; at most one callback runs at a time.
C6_CallbacksInOrderOneAtATime ==
    [][/\ Cardinality(cb'.running) <= 1
       /\ (hist'.calls # hist.calls /\ hist'.calls # <<>>) =>
            /\ cb.running = {}
            /\ hist.result = "running"
            /\ Len(hist.calls) < Len(RegistrationOrder)
            /\ hist'.calls = Append(hist.calls, RegistrationOrder[Len(hist.calls) + 1])]_vars

\* the first of two external callbacks has raised, after an internal callback
\* ran: the second was not invoked
C6_Witness ==
    /\ pc = "idle"
    /\ hist.result = "CallbackError"
    /\ Len(dev.callbacks) = 2
    /\ Len(hist.calls) = Len(dev.internal_callbacks) + 1
    /\ Len(dev.internal_callbacks) >= 1

\* a monthly-summary request of the running update() has failed with an HTTP
\* error
MonthlyFailed(h) == h.failure = <<"monthly", "HttpException">>

Whitelisted(doc) ==
    {doc.whitelistedApplicationList[i].applicationId :
        i \in 1..Len(doc.whitelistedApplicationList)}

\* C8: no step takes an application id out of the Application map or gives an
\* id another Application object, and as many Applications have been
\* constructed as the map has ids.
C8_ApplicationsAreKept ==
    [][/\ \A id \in DOMAIN dev.applications :
            /\ id \in DOMAIN dev'.applications
            /\ dev'.applications[id].oid = dev.applications[id].oid
       /\ dev'.objects = Cardinality(DOMAIN dev'.applications)]_vars

\* after a second update() the map has an application that the whitelist of
\* the settings document no longer has
C8_Witness ==
    /\ Returned({"update"})
    /\ ops = 2
    /\ \E id \in DOMAIN dev.applications : id \notin Whitelisted(dev.parental_control_settings)


\* the three setters of one field of a regulation
RegulationSetters ==
    {"update_max_daily_playtime", "set_bedtime_alarm", "set_bedtime_end_time"}

\* one of the three setters is called in this step and sends its request
SetterSends ==
    /\ pc = "idle"
    /\ ops' = ops + 1
    /\ hist'.op \in RegulationSetters
    /\ hist'.sent # <<>>

\* the field of a regulation a setter targets
TargetedField(name) ==
    IF name = "update_max_daily_playtime" THEN "timeToPlayInOneDay" ELSE "bedtime"

RegulationFields == {"timeToPlayInOneDay", "bedtime"}

\* C9: the playTimerRegulations that update_max_daily_playtime,
\* set_bedtime_alarm and set_bedtime_end_time send differ from the ones of the
\* local document before the call in nothing but the targeted field
\* (timeToPlayInOneDay or bedtime) of dailyRegulations when the timer mode is
\* DAILY, of the current weekday's regulation when it is EACH_DAY_OF_THE_WEEK:
\* the other regulations, the other field of the targeted regulation,
\* timerMode, restrictionMode and the unknown field are sent as they were.
\* Within bedtime, set_bedtime_alarm leaves startingTime and
\* set_bedtime_end_time leaves enabled and endingTime as they were.
C9_OnlyTargetedFieldChanges ==
    [][SetterSends =>
          LET old == dev.parental_control_settings.playTimerRegulations
              new == hist'.sent[1].body
              day == CurrentDay(Now)
              field == TargetedField(hist'.op)
              oldTarget == IF old.timerMode = "DAILY" THEN old.dailyRegulations
                           ELSE old.eachDayOfTheWeekRegulations[day]
              newTarget == IF old.timerMode = "DAILY" THEN new.dailyRegulations
                           ELSE new.eachDayOfTheWeekRegulations[day]
          IN  /\ new.timerMode = old.timerMode
              /\ new.restrictionMode = old.restrictionMode
              /\ new.other = old.other
              /\ new.legacyBedtime = old.legacyBedtime
              /\ IF old.timerMode = "DAILY"
                 THEN new.eachDayOfTheWeekRegulations = old.eachDayOfTheWeekRegulations
                 ELSE /\ new.dailyRegulations = old.dailyRegulations
                      /\ \A dn \in DayNames \ {day} :
                            new.eachDayOfTheWeekRegulations[dn] =
                                old.eachDayOfTheWeekRegulations[dn]
              /\ \A f \in RegulationFields \ {field} : newTarget[f] = oldTarget[f]
              /\ hist'.op = "set_bedtime_alarm" =>
                    newTarget.bedtime.startingTime = oldTarget.bedtime.startingTime
              /\ hist'.op = "set_bedtime_end_time" =>
                    /\ newTarget.bedtime.enabled = oldTarget.bedtime.enabled
                    /\ newTarget.bedtime.endingTime = oldTarget.bedtime.endingTime]_vars

\* one of the three setters was called on a Wednesday with a document in
\* EACH_DAY_OF_THE_WEEK mode and sent regulations in which Wednesday's differ
\* from the ones the document had
C9_Witness ==
    /\ hist.op \in RegulationSetters
    /\ hist.sent # <<>>
    /\ hist.pre.timer_mode = "EACH_DAY_OF_THE_WEEK"
    /\ hist.sent[1].body.eachDayOfTheWeekRegulations["wednesday"] #
            hist.pre.parental_control_settings.playTimerRegulations
                .eachDayOfTheWeekRegulations["wednesday"]


\* get_date_summary is called in this step
DateSummaryCalled == hist'.op = "get_date_summary" /\ hist' # hist

\* the records of daily_summaries whose date is the n-th day of the calendar
RecordsOfDay(summaries, n) ==
    SelectSeq(summaries, LAMBDA x : ToOrdinal(StrpDate(x.date)) = n)

\* C10: get_date_summary(d) returns the usage records dated d when there is
\* one, otherwise those dated the calendar day before d when there is one,
\* otherwise it raises ValueError; no record of another date is ever returned,
\* the device is left as it was, and a second call with the same date in the
\* state the first one left returns the same.
C10_DateSummaryLooksBackOneDay ==
    [][DateSummaryCalled =>
          LET day == ToOrdinal(hist'.arg)
              same == RecordsOfDay(dev.daily_summaries, day)
              before == RecordsOfDay(dev.daily_summaries, day - 1)
              again == GetDateSummary(dev', hist'.arg)
          IN  /\ dev' = dev
              /\ IF same # <<>>
                 THEN hist'.result = "ok" /\ hist'.ret = same
                 ELSE IF before # <<>>
                 THEN hist'.result = "ok" /\ hist'.ret = before
                 ELSE hist'.result = "ValueError" /\ hist'.ret = <<>>
              /\ \A i \in 1 .. Len(hist'.ret) :
                    ToOrdinal(StrpDate(hist'.ret[i].date)) \in {day - 1, day}
              /\ again.value = hist'.ret
              /\ (again.raised = "no") = (hist'.result = "ok")]_vars

\* get_date_summary was asked for the first of a month, found no record of
\* that day and returned the record of the last day of the month before
C10_Witness ==
    /\ hist.op = "get_date_summary"
    /\ hist.result = "ok"
    /\ hist.arg.day = 1
    /\ Len(hist.ret) = 1
    /\ hist.ret[1].date = Oct31


\* the caller calls this method in this step
Called(name) == pc = "idle" /\ ops' = ops + 1 /\ hist'.op = name

\* the method called in this step raised nothing and sent one request, to api
SentOne(api) ==
    /\ hist'.result = "running"
    /\ Len(hist'.sent) = 1
    /\ hist'.sent[1].api = api

\* the method called in this step raised exc and sent nothing
RaisedUnsent(exc) == hist'.result = exc /\ hist'.sent = <<>>

\* of the play-timer regulations ptr, the regulation the setters of today's
\* regulation write when the document before the call is in timer mode mode
TargetOf(ptr, mode) ==
    IF mode = "DAILY" THEN ptr.dailyRegulations
    ELSE ptr.eachDayOfTheWeekRegulations[CurrentDay(Now)]

MinutesOf(t) == t.hour * 60 + t.minute

\* C11: update_max_daily_playtime(m) raises DailyPlaytimeOutOfRangeError and
\* sends nothing for every m > 360 and every m < -1; for every m in [-1, 360]
\* it raises nothing and sends one play-timer update, in which the limit is
\* disabled and has no limitTime when m is -1, and is enabled with limitTime
\* the integer part of m otherwise.
C11_PlaytimeRange ==
    [][Called("update_max_daily_playtime") =>
          LET m == hist'.arg
              mode == dev.parental_control_settings.playTimerRegulations.timerMode
          IN  IF m.tenths > 3600 \/ m.tenths < -10
              THEN RaisedUnsent("DailyPlaytimeOutOfRangeError")
              ELSE /\ SentOne("update_play_timer")
                   /\ LET ttp == TargetOf(hist'.sent[1].body, mode).timeToPlayInOneDay
                      IN  IF m.tenths = -10
                          THEN ~ttp.enabled /\ IsNone(ttp.limitTime)
                          ELSE ttp.enabled /\ ttp.limitTime = Some(IntOf(m))]_vars

\* C12: set_bedtime_alarm(t) raises nothing and sends its request when t is
\* from 16:00 to 23:00 or is 00:00; for every other t it raises
\* BedtimeOutOfRangeError and sends nothing.
C12_BedtimeAlarmWindow ==
    [][Called("set_bedtime_alarm") =>
          LET t == MinutesOf(hist'.arg)
          IN  IF (16 * 60 <= t /\ t <= 23 * 60) \/ t = 0
              THEN SentOne("update_play_timer")
              ELSE RaisedUnsent("BedtimeOutOfRangeError")]_vars

\* C13: set_bedtime_end_time(t) raises nothing and sends its request for every
\* t from 05:00 to 09:00 and for t = 00:00; with 00:00 the bedtime sent is
\* disabled with a null startingTime, and bedtime_end is 00:00 when the method
\* has returned; for every other t it raises BedtimeOutOfRangeError and sends
\* nothing.
C13_BedtimeEndWindow ==
    [][/\ Called("set_bedtime_end_time") =>
            LET t == MinutesOf(hist'.arg)
                mode == dev.parental_control_settings.playTimerRegulations.timerMode
            IN  IF 5 * 60 <= t /\ t <= 9 * 60
                THEN SentOne("update_play_timer")
                ELSE IF t = 0
                THEN /\ SentOne("update_play_timer")
                     /\ LET bed == TargetOf(hist'.sent[1].body, mode).bedtime
                        IN  ~bed.enabled /\ bed.startingTime = NoTime
                ELSE RaisedUnsent("BedtimeOutOfRangeError")
       /\ ( /\ op.name = "set_bedtime_end_time"
            /\ pc # "idle" /\ pc' = "idle" /\ hist'.result = "ok"
            /\ hist'.arg = Time(0, 0) ) =>
                dev'.bedtime_end = Time(0, 0)]_vars

\* the seven lowercase day names
LowercaseDayNames ==
    {"monday", "tuesday", "wednesday", "thursday", "friday", "saturday", "sunday"}

\* C14: set_daily_restrictions raises InvalidDeviceStateError whenever the
\* device's timer mode is not EACH_DAY_OF_THE_WEEK, and a validation error
\* (ValueError when the timer mode is the right one) whenever day_of_week is
\* not one of the seven lowercase day names; in both cases nothing is sent and
\* the device is left as it was.
C14_DailyRestrictionsPreconditions ==
    [][Called("set_daily_restrictions") =>
          LET wrongMode == dev.timer_mode # "EACH_DAY_OF_THE_WEEK"
              wrongDay == hist'.arg.day_of_week \notin LowercaseDayNames
          IN  /\ wrongMode => RaisedUnsent("InvalidDeviceStateError") /\ dev' = dev
              /\ (wrongDay /\ ~wrongMode) => RaisedUnsent("ValueError") /\ dev' = dev]_vars

\* set_daily_restrictions was called for "Monday", which is no lowercase day
\* name, on a device in EACH_DAY_OF_THE_WEEK mode, and raised ValueError
C14_Witness ==
    /\ hist.op = "set_daily_restrictions"
    /\ hist.arg.day_of_week = "Monday"
    /\ hist.pre.timer_mode = "EACH_DAY_OF_THE_WEEK"
    /\ hist.result = "ValueError"
    /\ hist.sent = <<>>

\* the bedtimes of the play-timer regulations ptr
BedtimesOf(ptr) ==
    {ptr.dailyRegulations.bedtime}
        \cup {ptr.eachDayOfTheWeekRegulations[dn].bedtime : dn \in DayNames}

\* C15: in every play-timer document that set_bedtime_alarm,
\* set_bedtime_end_time and set_daily_restrictions send, a bedtime that is
\* disabled has a null startingTime and a null endingTime.
C15_DisabledBedtimeHasNoTimes ==
    [][( /\ \/ Called("set_bedtime_alarm")
            \/ Called("set_bedtime_end_time")
            \/ Called("set_daily_restrictions")
         /\ hist'.sent # <<>> ) =>
            \A bed \in BedtimesOf(hist'.sent[1].body) :
                ~bed.enabled => bed.startingTime = NoTime /\ bed.endingTime = NoTime]_vars

\* a call of Application.set_safe_launch_setting and the return of one
SafeLaunchCalled ==
    /\ pc = "idle"
    /\ hist' # hist
    /\ hist'.op = "set_safe_launch_setting"

SafeLaunchReturned ==
    /\ pc # "idle"
    /\ pc' = "idle"
    /\ hist'.op = "set_safe_launch_setting"
    /\ hist'.result = "ok"

\* C16: set_safe_launch_setting on an application that has had no sync
\* callback raises ValueError, and on an application whose id is not in the
\* device's current whitelist it raises LookupError; either way nothing is
\* sent and the device is as it was.
C16_SafeLaunchPreconditions ==
    [][SafeLaunchCalled =>
        LET id == hist'.arg.id
            refused(exc) == /\ hist'.result = exc
                            /\ hist'.sent = <<>>
                            /\ pc' = "idle"
                            /\ dev' = dev
        IN  /\ ~dev.applications[id].synced => refused("ValueError")
            /\ (/\ dev.applications[id].synced
                /\ dev.parental_control_settings # NoDoc
                /\ id \notin Whitelisted(dev.parental_control_settings))
               => refused("LookupError")]_vars

\* the entries of a whitelist that belong to an application
EntriesOf(doc, id) ==
    {i \in 1 .. Len(doc.whitelistedApplicationList) :
        doc.whitelistedApplicationList[i].applicationId = id}

\* C17: the document a successful set_safe_launch_setting(v) sends is the
\* device's current settings document with this application's safeLaunch
\* set to v and nothing else changed, and when the call has returned the
\* application's safe_launch_setting is the one the response has for it.
C17_SafeLaunchSendsCurrentDocument ==
    [][/\ (SafeLaunchCalled /\ hist'.sent # <<>>) =>
            LET id == hist'.arg.id
                cur == dev.parental_control_settings
                body == hist'.sent[1].body
            IN  /\ Len(hist'.sent) = 1
                /\ hist'.sent[1].api = "update_restriction_level"
                /\ cur # NoDoc
                /\ \E i \in EntriesOf(cur, id) :
                        body = [cur EXCEPT !.whitelistedApplicationList[i].safeLaunch =
                                               hist'.arg.value]
       /\ SafeLaunchReturned =>
            LET id == hist'.arg.id
                ack == hist'.ack.parentalControlSetting
            IN  /\ hist'.ack # NoDoc
                /\ \A i \in EntriesOf(ack, id) :
                        dev'.applications[id].safe_launch_setting =
                            ack.whitelistedApplicationList[i].safeLaunch]_vars

\* NintendoParental.create() has ended, by returning or by raising
CreateEnded ==
    /\ client.call = "create"
    /\ client.at = "none"
    /\ client.result \notin {"none", "running"}

\* C18: when the device-list request of create() was answered, create()
\* returns the instance and the instance lists every device of the answer,
\* whether or not a device's first update() raised.
C18_CreateSurvivesDeviceFailures ==
    (CreateEnded /\ client.fetched) =>
        /\ client.result = "ok"
        /\ client.returned
        /\ Range(client.items) \subseteq Range(client.devices)

\* C19: when the device-list request of create() is answered 404, create()
\* raises NoDevicesFoundException; when it is answered 500, create() raises
\* HttpException; in both cases no instance is returned.
C19_CreateDeviceListErrors ==
    (CreateEnded /\ ~client.fetched) =>
        /\ client.status = 404 => client.result = "NoDevicesFoundException"
        /\ client.status = 500 => client.result = "HttpException"
        /\ ~client.returned

\* the token was expired, or within the grace window, when the call started
StaleAtStart(call) == call.start_remaining < GracePeriod

\* C20: a call of send_request that started with the token expired or within
\* thirty seconds of expiring has completed a refresh of its own before its
\* request goes out, and the request carries a token newer than the one the
\* call started with and not yet expired; a call with an endpoint name that
\* is not in ENDPOINTS ends with ValueError having started no refresh and
\* sent no request.
C20_RefreshBeforeRequest ==
    \A i \in DOMAIN dispatcher.calls :
        LET call == dispatcher.calls[i]
        IN  /\ (call.sent /\ StaleAtStart(call)) =>
                    /\ call.refreshed
                    /\ call.sent_token > call.start_token
            /\ call.sent => call.sent_remaining >= 0
            /\ (call.at = "request" /\ StaleAtStart(call)) => call.refreshed
            /\ call.endpoint \notin ENDPOINTS =>
                    /\ call.at = "ended"
                    /\ call.result = "ValueError"
                    /\ ~call.refreshing
                    /\ ~call.sent
            /\ call.endpoint \in ENDPOINTS => call.result # "ValueError"

\* two calls started on the same token within its grace window, as the
\* coroutines of one gather are, both with their request sent and one of them
\* still waiting for its answer
C20_Witness ==
    /\ \E i, j \in DOMAIN dispatcher.calls :
            /\ i # j
            /\ \A k \in {i, j} :
                    /\ StaleAtStart(dispatcher.calls[k])
                    /\ dispatcher.calls[k].start_remaining >= 0
                    /\ dispatcher.calls[k].sent
            /\ dispatcher.calls[i].at = "request"
            /\ dispatcher.calls[j].start_token = dispatcher.calls[i].start_token

\* the calls of send_request whose request has been answered
Answered ==
    {i \in DOMAIN dispatcher.calls :
        dispatcher.calls[i].at = "ended" /\ dispatcher.calls[i].response # NoResponse}

\* C21: a call whose request is answered with a status outside [200, 300)
\* raises an HttpException whose status_code is that status and whose message
\* is the text of the answer; a call answered with a status in [200, 300)
\* returns, with the empty object as json when the body does not decode.
C21_HttpExceptionCarriesStatus ==
    \A i \in Answered :
        LET call == dispatcher.calls[i]
            status == call.response.status
        IN  /\ (status < 200 \/ status >= 300) =>
                    /\ call.result = "HttpException"
                    /\ call.exception.status_code = IntValue(status)
                    /\ call.exception.message = StrValue(call.response.text)
            /\ (status >= 200 /\ status < 300) =>
                    /\ call.result = "ok"
                    /\ call.exception = NoException
                    /\ ~call.response.decodable => call.json = "{}"

\* the device holds a bedtime alarm at the 00:00 sentinel, a limit of 300
\* minutes and 100 minutes played today
LimitOnly(d) ==
    /\ d.bedtime_alarm = Time(0, 0)
    /\ d.limit_time = 300
    /\ d.today_playing_time = 100

\* C22 as stated: with the bedtime alarm at the 00:00 sentinel, a limit of 300
\* minutes and 100 minutes played today, today_time_remaining is 200 when
\* update() has returned.
C22_RemainingIsLimitMinusPlayed ==
    [][(UpdateReturns /\ LimitOnly(dev')) => dev'.today_time_remaining = 200]_vars

\* C22, amended: in that case today_time_remaining is 200 or the number of
\* minutes from the update's now to midnight, whichever is less.
C22_RemainingIsLimitWithinDay ==
    [][(UpdateReturns /\ LimitOnly(dev')) =>
          dev'.today_time_remaining =
              Min(200, MinutesInDay - MinutesPastMidnight(op.now))]_vars

\* update() has returned late in the day with the limit alone in force and
\* fewer minutes left of the day than of the limit
C22_Witness ==
    /\ Returned({"update"})
    /\ LimitOnly(dev)
    /\ dev.today_time_remaining < 200
    /\ dev.today_time_remaining > 0

\* the daily-summaries read or the settings read of an update() is answered
\* and applied in this step
RefreshApplied ==
    /\ \E t \in {"daily", "settings"} : tasks[t] = "wait" /\ tasks'[t] # "wait"
    /\ faults' = faults

\* the records of a daily-summary list dated in the year and month of now
InMonthOf(summaries, now) ==
    {i \in DOMAIN summaries :
        summaries[i].date[1] = now.year /\ summaries[i].date[2] = now.month}

RECURSIVE PlayingTimeOver(_, _)
PlayingTimeOver(summaries, records) ==
    IF records = {} THEN 0
    ELSE LET i == CHOOSE r \in records : TRUE
         IN  summaries[i].playingTime + PlayingTimeOver(summaries, records \ {i})

\* C23: when a daily-summaries read or a settings read has been applied and
\* the device holds a non-empty daily-summary list, month_playing_time is the
\* sum of playingTime over the records of that list dated in the year and
\* month of the update's now, whatever it was before.
C23_MonthPlayingTimeIsMonthSum ==
    [][(RefreshApplied /\ dev'.daily_summaries # <<>>) =>
          dev'.month_playing_time =
              PlayingTimeOver(dev'.daily_summaries,
                              InMonthOf(dev'.daily_summaries, op.now))]_vars

\* a second update() has returned on a list of three days of two months, and
\* month_playing_time is the sum of only some of them
C23_Witness ==
    /\ Returned({"update"})
    /\ ops = 2
    /\ Len(dev.daily_summaries) = 3
    /\ dev.month_playing_time \in {30, 150}

\* C24: when update() returns, the derived fields are those the computation
\* gives on the data of that update's four reads: the alarms flag is the one
\* just read, and today's playing time, today_time_remaining and
\* month_playing_time are what _calculate_times makes of the limit, the
\* bedtime, the daily summaries and that flag, in whatever order the answers
\* came.
C24_DerivedFieldsUseAllFetches ==
    [][(UpdateReturns /\ dev'.daily_summaries # <<>>) =>
          LET derived == CalculateTimes(dev', op.now)
          IN  /\ dev'.alarms_enabled = (hist'.extras = "VISIBLE")
              /\ dev'.today_playing_time = derived.today_playing_time
              /\ dev'.today_time_remaining = derived.today_time_remaining
              /\ dev'.month_playing_time = derived.month_playing_time]_vars

\* the first request of each of the four groups of update()
FirstRequests ==
    { "get_device_daily_summaries", "get_device_parental_control_setting",
      "get_device_monthly_summaries", "get_account_device" }

\* the requests the operation has sent so far
SentSoFar(h) == {h.sent[i].api : i \in DOMAIN h.sent}

\* C25: the step that calls update() puts the first request of all four
\* groups in flight, with no answer applied yet, and whenever an answer of
\* a group is applied the first requests of all four groups have been sent.
C25_FourRequestsInFlight ==
    [][/\ (pc = "idle" /\ pc' = "update") =>
            /\ FirstRequests \subseteq SentSoFar(hist')
            /\ \A t \in TaskNames : tasks'[t] = "wait"
            /\ dev' = dev
       /\ (\E t \in TaskNames : tasks[t] = "wait" /\ tasks'[t] # "wait") =>
            /\ hist.op = "update"
            /\ FirstRequests \subseteq SentSoFar(hist)]_vars

\* an update() in progress: the extras answer has been applied while the
\* other three groups are still waiting for theirs
C25_Witness ==
    /\ pc = "update"
    /\ tasks["extras"] = "done"
    /\ \A t \in TaskNames \ {"extras"} : tasks[t] = "wait"
    /\ FirstRequests \subseteq SentSoFar(hist)

\* C26: the device has as many internal callbacks as its Application map has
\* entries, one for each application id and none twice, and no step removes
\* or reorders an internal callback.
C26_OneInternalCallbackPerApplication ==
    [][/\ Len(dev'.internal_callbacks) = Cardinality(DOMAIN dev'.applications)
       /\ {dev'.internal_callbacks[i] : i \in DOMAIN dev'.internal_callbacks}
            = DOMAIN dev'.applications
       /\ Len(dev.internal_callbacks) <= Len(dev'.internal_callbacks)
       /\ \A i \in DOMAIN dev.internal_callbacks :
            dev'.internal_callbacks[i] = dev.internal_callbacks[i]]_vars

\* a mutation has returned on a device whose two updates and settings
\* documents have given it two applications, each with its callback
C26_Witness ==
    /\ Returned(MutationMethods)
    /\ Cardinality(DOMAIN dev.applications) = 2
    /\ Len(dev.internal_callbacks) = 2
    /\ Len(hist.calls) >= 2

\* the errors a mutation method raises for an argument or a device state it
\* does not accept
ValidationErrors ==
    {"BedtimeOutOfRangeError", "DailyPlaytimeOutOfRangeError",
     "InvalidDeviceStateError", "ValueError"}

\* C27: a mutation method that raises a validation error leaves the settings
\* document and every other field of the device as they were when it was
\* called, and sends nothing.
C27_ValidationErrorChangesNothing ==
    [][(/\ pc = "idle"
        /\ hist'.op \in MutationMethods
        /\ hist' # hist
        /\ hist'.result \in ValidationErrors) =>
           /\ dev' = dev
           /\ hist'.sent = <<>>]_vars

\* C28: whenever no operation on the device is in progress, the settings
\* document every synced Application holds is the document the device holds.
C28_ApplicationsHoldCurrentDocument ==
    Idle =>
        \A id \in DOMAIN dev.applications :
            dev.applications[id].synced =>
                ApplicationSettings(dev, id) = dev.parental_control_settings

\* the last update() raised what one of its reads raised
UpdateRaised ==
    /\ pc = "idle"
    /\ hist.op = "update"
    /\ hist.failure # <<>>

\* C29: an update() that raises because one of its reads failed has invoked
\* no callback, and after it has raised no step changes a field of the
\* device on behalf of the reads it left unanswered.
C29_FailedUpdateStopsChangingDevice ==
    [][UpdateRaised =>
          /\ hist.calls = <<>>
          /\ (\E t \in TaskNames : Pending(t)) => dev' = dev]_vars

\* C30: when NintendoParental.update() has returned normally, the device
\* collection has one Device for each id of the device list just fetched, no
\* other and none twice, whatever the earlier calls did.
C30_DevicesAreTheFetchedList ==
    (client.at = "none" /\ client.result = "ok") =>
        /\ Range(client.devices) = Range(client.items)
        /\ Cardinality(Range(client.devices)) = Len(client.devices)

====
